---- MODULE Spec2Model ----
(***************************************************************************)
(* Model of the cibo-online authoritative server core.                     *)
(*   cibo_online/src/client/mod.rs   ClientAction, Client                  *)
(*   cibo_online/src/server.rs       ServerGameState                       *)
(*   src/game_server.rs              ws_handler, handle_client, run        *)
(***************************************************************************)
EXTENDS Integers, Sequences, FiniteSets, TLC

(***************************************************************************)
(* Bounds of the model.                                                    *)
(***************************************************************************)
\* number of ClientIds the CLIENT_ID counter may hand out
MaxClients == 2
\* longest sequence of actions folded by ClientAction::combine (SpecCombine)
MaxLen == 2
\* number of handler calls in one run of the server
MaxSteps == 6
\* number of task steps in one run of the server (SpecServer)
MaxServerSteps == 10
\* number of ObjectIds the OBJECT_ID counter may hand out
MaxObjects == 2
\* beach balls added by one set_special_event(BeachEpisode, true); the code
\* adds 500 (server.rs:222), the model a scaled-down batch
BallsPerEvent == 1
\* width in bits of the id counters in SpecIds; the code has AtomicU32
\* (ClientId, ObjectId) and AtomicU64 (NetworkObjectId), the model scaled-down
\* counters that wrap in the same way
IdBits == 2

(***************************************************************************)
(* Program constants.                                                      *)
(***************************************************************************)
NAME_LIMIT == 16
MESSAGE_LIMIT == 100

(***************************************************************************)
(* Option<T>                                                               *)
(***************************************************************************)
None == [tag |-> "None"]
Some(v) == [tag |-> "Some", v |-> v]
is_some(o) == o.tag = "Some"

(***************************************************************************)
(* MoveDirection, Position                                                 *)
(***************************************************************************)
MoveDirection == {"Up", "Down", "Left", "Right", "None"}
\* directions and positions the inputs are drawn from
InputDirections == {"Up", "Left", "None"}
Position_default == <<0, 0>>
InputPositions == {<<0, 0>>, <<1, 0>>}

(***************************************************************************)
(* ClientActionMovement and ClientAction  (client/mod.rs)                  *)
(***************************************************************************)
Move(p, d) == [kind |-> "Move", pos |-> p, dir |-> d]
Look(d) == [kind |-> "Look", dir |-> d]

ClientAction_new == [movement |-> None, typing |-> None]

ClientAction_movement(self, p, d) == [self EXCEPT !.movement = Some(Move(p, d))]

ClientAction_look(self, d) ==
    IF is_some(self.movement) /\ self.movement.v.kind = "Move"
    THEN [self EXCEPT !.movement = Some(Move(self.movement.v.pos, d))]
    ELSE [self EXCEPT !.movement = Some(Look(d))]

ClientAction_typing(self, t) == [self EXCEPT !.typing = Some(t)]

ClientAction_any(self) == is_some(self.movement) \/ is_some(self.typing)

ClientAction_combine(self, action) ==
    LET m == IF is_some(action.movement)
             THEN IF action.movement.v.kind = "Move"
                  THEN ClientAction_movement(self, action.movement.v.pos,
                                             action.movement.v.dir)
                  ELSE ClientAction_look(self, action.movement.v.dir)
             ELSE self
    IN  IF is_some(action.typing)
        THEN [m EXCEPT !.typing = action.typing]
        ELSE m

\* every ClientAction the public API (new, movement, look, typing) can build
\* from the input directions and positions
MovementInputs ==
    {None} \cup {Some(Move(p, d)) : p \in InputPositions, d \in InputDirections}
           \cup {Some(Look(d)) : d \in InputDirections}
TypingInputs == {None, Some(TRUE), Some(FALSE)}
AllActions == [movement : MovementInputs, typing : TypingInputs]

(***************************************************************************)
(* Client  (client/mod.rs)                                                 *)
(***************************************************************************)
Client_new(id, name, position) ==
    [id |-> id, name |-> name, typing |-> FALSE, position |-> position,
     movement |-> "None", look_direction |-> "None"]

Client_apply_action(self, action) ==
    LET m == IF is_some(action.movement)
             THEN IF action.movement.v.kind = "Move"
                  THEN [self EXCEPT
                          !.position = action.movement.v.pos,
                          !.movement = action.movement.v.dir,
                          !.look_direction =
                              IF action.movement.v.dir # "None"
                              THEN action.movement.v.dir
                              ELSE self.look_direction]
                  ELSE [self EXCEPT !.look_direction = action.movement.v.dir]
             ELSE self
    IN  IF is_some(action.typing)
        THEN [m EXCEPT !.typing = action.typing.v]
        ELSE m

(***************************************************************************)
(* String: a sequence of chars; "e2" stands for a two-byte UTF-8 char,     *)
(* " " for whitespace, every other char is one byte.                       *)
(***************************************************************************)
char_len(c) == IF c = "e2" THEN 2 ELSE 1

RECURSIVE byte_len(_)
byte_len(s) == IF s = <<>> THEN 0 ELSE char_len(Head(s)) + byte_len(Tail(s))

\* str::is_char_boundary: n is 0, the length, or the start of a char
is_char_boundary(s, n) ==
    \E k \in 0..Len(s) : byte_len(SubSeq(s, 1, k)) = n

\* String::truncate(new_len): no effect when new_len >= len, panics when
\* new_len is not on a char boundary
String_truncate(s, new_len) ==
    IF new_len >= byte_len(s) THEN [panic |-> FALSE, s |-> s]
    ELSE IF ~is_char_boundary(s, new_len) THEN [panic |-> TRUE, s |-> s]
    ELSE LET k == CHOOSE k \in 0..Len(s) : byte_len(SubSeq(s, 1, k)) = new_len
         IN  [panic |-> FALSE, s |-> SubSeq(s, 1, k)]

RECURSIVE trim_start(_)
trim_start(s) ==
    IF s # <<>> /\ Head(s) = " " THEN trim_start(Tail(s)) ELSE s

RECURSIVE trim_end(_)
trim_end(s) ==
    IF s # <<>> /\ s[Len(s)] = " " THEN trim_end(SubSeq(s, 1, Len(s) - 1)) ELSE s

\* str::trim
trim(s) == trim_end(trim_start(s))

Anon == <<"A", "n", "o", "n">>

(***************************************************************************)
(* Sequence helpers                                                        *)
(***************************************************************************)
Range(s) == {s[i] : i \in 1..Len(s)}

RECURSIVE SortedIds(_)
\* the elements of a finite set of numbers in ascending order
SortedIds(S) ==
    IF S = {} THEN <<>>
    ELSE LET m == CHOOSE x \in S : \A y \in S : x <= y
         IN  <<m>> \o SortedIds(S \ {m})

(***************************************************************************)
(* f32: a value is NaN or a fixed-point number of thousandths; products    *)
(* and quotients are cut toward zero at that resolution.  The infinities   *)
(* are not represented: no modelled expression divides a non-zero value by *)
(* zero.                                                                   *)
(***************************************************************************)
SCALE == 1000
F(v) == [nan |-> FALSE, v |-> v]
NaN == [nan |-> TRUE, v |-> 0]
\* i64 as f32
f32(i) == F(i * SCALE)

iabs(a) == IF a < 0 THEN -a ELSE a
\* integer division rounding toward zero
tdiv(a, b) ==
    LET q == iabs(a) \div iabs(b)
    IN  IF (a < 0) # (b < 0) THEN -q ELSE q

RECURSIVE isqrt(_, _, _)
\* the largest r in lo..hi with r * r <= n
isqrt(n, lo, hi) ==
    IF lo >= hi THEN lo
    ELSE LET mid == (lo + hi + 1) \div 2
         IN  IF mid * mid <= n THEN isqrt(n, mid, hi) ELSE isqrt(n, lo, mid - 1)

f_add(a, b) == IF a.nan \/ b.nan THEN NaN ELSE F(a.v + b.v)
f_sub(a, b) == IF a.nan \/ b.nan THEN NaN ELSE F(a.v - b.v)
f_neg(a) == IF a.nan THEN NaN ELSE F(-a.v)
f_mul(a, b) == IF a.nan \/ b.nan THEN NaN ELSE F(tdiv(a.v * b.v, SCALE))
\* 0.0 / 0.0 is NaN
f_div(a, b) ==
    CASE a.nan \/ b.nan -> NaN
      [] b.v # 0 -> F(tdiv(a.v * SCALE, b.v))
      [] b.v = 0 /\ a.v = 0 -> NaN
\* the root is searched below 46340, the largest value whose square is a
\* 32-bit integer
f_sqrt(a) ==
    IF a.nan \/ a.v < 0 THEN NaN
    ELSE F(isqrt(a.v * SCALE, 0, IF a.v + SCALE < 46340 THEN a.v + SCALE ELSE 46340))
f_abs(a) == IF a.nan THEN NaN ELSE F(iabs(a.v))
\* f32::signum: 1.0 for +0.0 and positive values, NaN for NaN
f_signum(a) == IF a.nan THEN NaN ELSE IF a.v < 0 THEN F(-SCALE) ELSE F(SCALE)
\* comparisons with NaN are false, != with NaN is true
f_lt(a, b) == ~a.nan /\ ~b.nan /\ a.v < b.v
f_gt(a, b) == ~a.nan /\ ~b.nan /\ a.v > b.v
f_ne(a, b) == a.nan \/ b.nan \/ a.v # b.v
\* f32::max returns the other operand when one is NaN
f_max(a, b) == IF a.nan THEN b ELSE IF b.nan THEN a ELSE IF a.v >= b.v THEN a ELSE b
\* f32::clamp returns NaN for NaN
f_clamp(a, lo, hi) ==
    IF a.nan THEN NaN
    ELSE IF a.v < lo.v THEN lo ELSE IF a.v > hi.v THEN hi ELSE a
\* f32 as i64: toward zero, NaN gives 0
f_as_i64(a) == IF a.nan THEN 0 ELSE tdiv(a.v, SCALE)

(***************************************************************************)
(* CollisionInfo  (world/object.rs 86-179)                                 *)
(***************************************************************************)
CollisionInfo_new_dynamic(center, velocity) ==
    [center |-> center, velocity |-> Some(velocity), is_player |-> FALSE]
CollisionInfo_new_static(center) ==
    [center |-> center, velocity |-> None, is_player |-> FALSE]
CollisionInfo_new_player(center, velocity) ==
    [center |-> center, velocity |-> Some(velocity), is_player |-> TRUE]

CollisionInfo_is_static(self) == ~is_some(self.velocity)
CollisionInfo_velocity(self) ==
    IF is_some(self.velocity) THEN self.velocity.v ELSE <<F(0), F(0)>>

\* the early return of apply_raw for a static self removed
apply_raw_is_static_ignored(self) == FALSE

apply_raw_is_static(self) == CollisionInfo_is_static(self)

CollisionInfo_apply_raw(self, other, normal, normal_len) ==
    IF apply_raw_is_static(self) THEN <<F(0), F(0)>>
    ELSE LET v == CollisionInfo_velocity(self)
             dot == f_add(f_mul(v[1], normal[1]), f_mul(v[2], normal[2]))
             push == f_mul(f_div(F(16000), f_max(normal_len, F(100))), F(500))
             w == IF CollisionInfo_is_static(other)
                  THEN << f_sub(v[1], f_mul(f_mul(F(2000), dot), normal[1])),
                          f_sub(v[2], f_mul(f_mul(F(2000), dot), normal[2])) >>
                  ELSE << f_sub(v[1], f_mul(normal[1], push)),
                          f_sub(v[2], f_mul(normal[2], push)) >>
         IN  << f_clamp(w[1], F(-5000), F(5000)),
                f_clamp(w[2], F(-5000), F(5000)) >>

\* the unit normal from self to other and its length before normalisation
CollisionInfo_normal(self, other) ==
    LET n == << f32(other.center[1] - self.center[1]),
                f32(other.center[2] - self.center[2]) >>
        len == f_sqrt(f_add(f_mul(n[1], n[1]), f_mul(n[2], n[2])))
    IN  [normal |-> <<f_div(n[1], len), f_div(n[2], len)>>, normal_len |-> len]

CollisionInfo_apply(self, other) ==
    LET Raw(n) == CollisionInfo_apply_raw(self, other, n.normal, n.normal_len)
    IN  Raw(CollisionInfo_normal(self, other))

CollisionInfo_apply_with_force(self, other, force) ==
    LET Forced(n) ==
            LET Add(velocity) ==
                    << f_add(velocity[1], f_mul(f_neg(n.normal[1]), force)),
                       f_add(velocity[2], f_mul(f_neg(n.normal[2]), force)) >>
            IN  Add(CollisionInfo_apply_raw(self, other, n.normal, n.normal_len))
    IN  Forced(CollisionInfo_normal(self, other))

(***************************************************************************)
(* Rect, Dimension  (monos_gfx, as used by world/object.rs)                *)
(***************************************************************************)
Rect_from_dimensions(d) == [min |-> <<0, 0>>, max |-> d]
Rect_translate(r, p) ==
    [min |-> <<r.min[1] + p[1], r.min[2] + p[2]>>,
     max |-> <<r.max[1] + p[1], r.max[2] + p[2]>>]
Rect_intersects(a, b) ==
    /\ a.min[1] < b.max[1] /\ a.max[1] > b.min[1]
    /\ a.min[2] < b.max[2] /\ a.max[2] > b.min[2]
Dimension_center(d) == <<d[1] \div 2, d[2] \div 2>>

(***************************************************************************)
(* BeachBall  (world/objects/beach_ball.rs)                                *)
(* A ball in the world is a record of its ObjectId (the key of             *)
(* world.network_objects), the NetworkObjectId of its box (kind) and the   *)
(* fields of BeachBall; of its ObjectProperties only position varies.      *)
(***************************************************************************)
\* the NetworkObjectId BeachBall gets from register_network_object when
\* WorldState::new runs setup_network_objects: the first NETWORK_OBJ_ID
BEACH_BALL_KIND == 0
\* assets().beach_ball.dimensions(): the size of the ball image
BEACH_BALL_DIMENSIONS == <<16, 16>>

BeachBallStateMessage(self) ==
    [position |-> self.position_f, velocity |-> self.velocity]

BeachBall_new(id, position) ==
    [id |-> id, kind |-> BEACH_BALL_KIND,
     position |-> position,
     position_f |-> <<f32(position[1]), f32(position[2])>>,
     velocity |-> <<F(0), F(0)>>,
     angle |-> F(0),
     queued_collision |-> None]

BeachBall_hitbox(self) ==
    Rect_translate(Rect_from_dimensions(BEACH_BALL_DIMENSIONS), self.position)

BeachBall_collision_info(self) ==
    LET c == Dimension_center(BEACH_BALL_DIMENSIONS)
    IN  CollisionInfo_new_dynamic(
            <<self.position[1] + c[1], self.position[2] + c[2]>>, self.velocity)

BeachBall_on_collision(self, collision) ==
    [self EXCEPT !.queued_collision = Some(collision)]

BeachBall_apply_collision(self, collision) ==
    LET cv == CollisionInfo_velocity(collision)
    IN  [self EXCEPT !.velocity =
            IF collision.is_player /\ (f_ne(cv[1], F(0)) \/ f_ne(cv[2], F(0)))
            THEN CollisionInfo_apply_with_force(BeachBall_collision_info(self),
                                                collision, F(1200))
            ELSE CollisionInfo_apply(BeachBall_collision_info(self), collision)]

\* BeachBall::tick 105-115, before collision_tester.test; the server ticks
\* with delta_ms = SERVER_TICK_RATE, so passed_ticks is 1.0 and blend 0.95
BeachBall_tick_blend(self) ==
    LET Damp(v) == LET b == f_mul(v, F(950))
                   IN  IF f_lt(f_abs(b), F(100)) THEN F(0) ELSE b
    IN  [self EXCEPT !.velocity = <<Damp(@[1]), Damp(@[2])>>]

\* BeachBall::tick 119-128, after collision_tester.test
BeachBall_tick_move(self) ==
    LET pf == << f_add(self.position_f[1], self.velocity[1]),
                 f_add(self.position_f[2], self.velocity[2]) >>
        spin == f_mul(f_mul(f_add(f_abs(self.velocity[1]),
                                  f_mul(f_abs(self.velocity[2]), F(500))),
                            f_signum(self.velocity[1])),
                      F(7500))
    IN  [self EXCEPT !.position_f = pf,
                     !.angle = f_add(@, spin),
                     !.position = <<f_as_i64(pf[1]), f_as_i64(pf[2])>>]

\* the payload of a ClientMessage::UpdateObject: bytes that postcard decodes
\* to a CollisionInfo (ok) or does not
Bytes_of(info) == [ok |-> TRUE, info |-> info]
Bytes_garbage == [ok |-> FALSE]

\* the object after an undecodable payload, were it handled before decoding
server_message_err_resets(self) == [self EXCEPT !.velocity = <<F(0), F(0)>>]

server_message_err(self) == self

\* BeachBall::server_message: result is "Err" or "Some" (Ok(Some(msg)))
BeachBall_server_message(self, data) ==
    IF ~data.ok
    THEN [result |-> "Err", self |-> server_message_err(self), msg |-> None]
    ELSE LET Reply(ball) == [result |-> "Some", self |-> ball,
                              msg |-> Some(BeachBallStateMessage(ball))]
         IN  Reply(BeachBall_apply_collision(self, data.info))

\* BeachBall::server_tick
BeachBall_server_tick(self) ==
    LET Result(ball) ==
            [self |-> ball,
             msg |-> IF f_gt(f_abs(ball.velocity[1]), F(100))
                        \/ f_gt(f_abs(ball.velocity[2]), F(100))
                     THEN Some(BeachBallStateMessage(ball)) ELSE None]
    IN  Result(IF is_some(self.queued_collision)
               THEN BeachBall_apply_collision(
                        [self EXCEPT !.queued_collision = None],
                        self.queued_collision.v)
               ELSE self)

(***************************************************************************)
(* Encoding and decoding  (world/network_object.rs 135-202, the serde      *)
(* derives of BeachBall and WorldState, server.rs 304-326)                 *)
(* The bytes of a value are modelled by the fields postcard writes.        *)
(***************************************************************************)
\* the NetworkObjectIds that have a deserialize function after
\* setup_network_objects
Decoders == {BEACH_BALL_KIND}

Ok(v) == [ok |-> TRUE, v |-> v]
Err(e) == [ok |-> FALSE, e |-> e]

\* derive(Serialize) of BeachBall: angle and queued_collision are
\* #[serde(skip)]
BeachBall_serialize(self) ==
    [position |-> self.position, position_f |-> self.position_f,
     velocity |-> self.velocity]

\* a decoder that rebuilds position_f from properties.position
BeachBall_deserialize_from_position(id, kind, fields) ==
    [id |-> id, kind |-> kind,
     position |-> fields.position,
     position_f |-> <<f32(fields.position[1]), f32(fields.position[2])>>,
     velocity |-> fields.velocity,
     angle |-> F(0),
     queued_collision |-> None]

\* derive(Deserialize) of BeachBall: the skipped fields get their defaults
BeachBall_deserialize(id, kind, fields) ==
    [id |-> id, kind |-> kind,
     position |-> fields.position,
     position_f |-> fields.position_f,
     velocity |-> fields.velocity,
     angle |-> F(0),
     queued_collision |-> None]

\* impl Serialize for BoxedNetworkObject: the sequence (id, object)
BoxedNetworkObject_serialize(self) == <<self.kind, BeachBall_serialize(self)>>

\* BoxedNetworkObjectVisitor::visit_seq; id is the ObjectId the box is
\* stored under
BoxedNetworkObject_deserialize(id, bytes) ==
    IF bytes[1] \notin Decoders THEN Err("unknown network object id")
    ELSE Ok(BeachBall_deserialize(id, bytes[1], bytes[2]))

\* postcard::to_allocvec(world)
WorldState_serialize(world) ==
    [clients |-> world.clients,
     special_events |-> world.special_events,
     network_objects |->
         {<<o.id, BoxedNetworkObject_serialize(o)>> : o \in world.network_objects}]

\* postcard::from_bytes::<WorldState>: the error of one map entry is the
\* error of the whole payload
WorldState_deserialize(bytes) ==
    LET entries == {[id |-> e[1],
                     object |-> BoxedNetworkObject_deserialize(e[1], e[2])] :
                       e \in bytes.network_objects}
    IN  IF \E e \in entries : ~e.object.ok
        THEN Err("unknown network object id")
        ELSE Ok([clients |-> bytes.clients,
                 special_events |-> bytes.special_events,
                 network_objects |-> {e.object.v : e \in entries}])

(***************************************************************************)
(* ServerMessage  (server.rs)                                              *)
(***************************************************************************)
\* SerializedClientGameState(client_id, postcard bytes of the world)
FullState(client_id, world) ==
    [type |-> "FullState", own_id |-> client_id,
     world |-> WorldState_serialize(world)]
NewClient(client) == [type |-> "NewClient", client |-> client]
ClientLeft(id) == [type |-> "ClientLeft", id |-> id]
UpdateState(updates) == [type |-> "UpdateState", updates |-> updates]
Chat(id, text) == [type |-> "Chat", id |-> id, text |-> text]
SpecialEventMsg(event, active) ==
    [type |-> "SpecialEvent", event |-> event, active |-> active]
NewObject(id, object) == [type |-> "NewObject", id |-> id, object |-> object]
UpdateObject(id, data) == [type |-> "UpdateObject", id |-> id, data |-> data]
DeleteObject(id) == [type |-> "DeleteObject", id |-> id]

(***************************************************************************)
(* NotifyTarget and notify_clients  (server.rs)                            *)
(***************************************************************************)
All == [kind |-> "All", id |-> -1]
AllExcept(id) == [kind |-> "AllExcept", id |-> id]

\* a target that does not single out the client
Only_as_all(id) == [kind |-> "All", id |-> -1]

Only(id) == [kind |-> "Only", id |-> id]

notify_clients_everyone(client_mapping, msg, target) ==
    [msg |-> msg, to |-> client_mapping]

\* one broadcast: the message and the channels (in client_mapping order) the
\* notify_client callback is invoked on
notify_clients(client_mapping, msg, target) ==
    LET NotExcept(id) == id # target.id
        IsTarget(id) == id = target.id
        only == SelectSeq(client_mapping, IsTarget)
    IN  [msg |-> msg,
         to  |-> CASE target.kind = "All" -> client_mapping
                   [] target.kind = "AllExcept" ->
                        SelectSeq(client_mapping, NotExcept)
                   [] target.kind = "Only" ->
                        IF only = <<>> THEN <<>> ELSE <<Head(only)>>]

(***************************************************************************)
(* The notify_client callback of GAME_STATE  (game_server.rs 33-41,        *)
(* server/src/main.rs 33-41) and the loop of notify_clients that calls it  *)
(* (server.rs 271-285).  A channel is "open", "full" (the bounded channel  *)
(* of server/src/main.rs) or "closed" (its receiver was dropped).          *)
(***************************************************************************)
\* the callback, were the result of send unwrapped
notify_client_unwrap(channel, msg) ==
    [sent |-> channel = "open", panic |-> channel # "open"]

\* tx.send(msg) / tx.try_send(msg) with unwrap_or_else(|e| error!(..))
notify_client(channel, msg) == [sent |-> channel = "open", panic |-> FALSE]

RECURSIVE notify_clients_loop(_, _, _, _)
\* the for loop over the targeted entries `to` of client_mapping; a panic of
\* the callback ends it
notify_clients_loop(to, k, msg, chans) ==
    IF k > Len(to) THEN [got |-> <<>>, panic |-> FALSE]
    ELSE LET Step(r) ==
                 IF r.panic THEN [got |-> <<>>, panic |-> TRUE]
                 ELSE LET Rest(rest) ==
                              [got |-> IF r.sent THEN <<to[k]>> \o rest.got
                                       ELSE rest.got,
                               panic |-> rest.panic]
                      IN  Rest(notify_clients_loop(to, k + 1, msg, chans))
         IN  Step(notify_client(chans[to[k]], msg))

RECURSIVE notify_all(_, _, _)
\* the broadcasts o of one handler, in order: per broadcast the channels
\* that received the message; a panic ends the handler
notify_all(o, i, chans) ==
    IF i > Len(o) THEN [got |-> <<>>, panic |-> FALSE]
    ELSE LET Step(r) ==
                 IF r.panic THEN [got |-> <<r.got>>, panic |-> TRUE]
                 ELSE LET Rest(rest) == [got |-> <<r.got>> \o rest.got,
                                         panic |-> rest.panic]
                      IN  Rest(notify_all(o, i + 1, chans))
         IN  Step(notify_clients_loop(o[i].to, 1, o[i].msg, chans))

(***************************************************************************)
(* WorldState, ServerGameState  (world.rs, server.rs)                      *)
(***************************************************************************)
WorldState_new ==
    [clients |-> <<>>,
     special_events |-> [beach_episode |-> FALSE],
     network_objects |-> {}]

ServerGameState_new ==
    [world |-> WorldState_new, client_mapping |-> <<>>, queued_moves |-> <<>>]

\* result of one call on the ServerGameState
Ret(gs, out) == [gs |-> gs, out |-> out, panic |-> FALSE]
Panic(gs) == [gs |-> gs, out |-> <<>>, panic |-> TRUE]

new_client(gs, id) ==
    Ret([gs EXCEPT !.client_mapping = Append(@, id)], <<>>)

remove_client(gs, client_id) ==
    LET NotId(id) == id # client_id
        NotClient(c) == c.id # client_id
        mapping == SelectSeq(gs.client_mapping, NotId)
    IN  Ret([gs EXCEPT !.client_mapping = mapping,
                       !.world.clients = SelectSeq(@, NotClient)],
            <<notify_clients(mapping, ClientLeft(client_id),
                             AllExcept(client_id))>>)

(***************************************************************************)
(* ServerGameState::tick  (server.rs 66-145)                               *)
(* world.network_objects is iterated in ascending ObjectId order.          *)
(***************************************************************************)
\* the objects of a set in ascending order of their ObjectId
ObjectSeq(objects) ==
    LET ids == SortedIds({o.id : o \in objects})
    IN  [i \in 1..Len(ids) |-> CHOOSE o \in objects : o.id = ids[i]]

\* 74-85: the hitboxes collected before any object ticks
CollectedHitboxes(objs) ==
    [i \in 1..Len(objs) |->
        [id |-> objs[i].id, hitbox |-> BeachBall_hitbox(objs[i]),
         info |-> BeachBall_collision_info(objs[i])]]

\* 90-110: the collision tester; the index in hitboxes of the first other
\* object whose collected hitbox intersects the caller's, 0 when none
collision_tester(hitboxes, object) ==
    LET hits == {j \in 1..Len(hitboxes) :
                    /\ hitboxes[j].id # object.id
                    /\ Rect_intersects(BeachBall_hitbox(object),
                                       hitboxes[j].hitbox)}
    IN  IF hits = {} THEN 0 ELSE CHOOSE j \in hits : \A l \in hits : j <= l

RECURSIVE tick_first_pass(_, _, _, _, _)
\* 89-112: object.tick for every object; st holds the objects, the queued
\* (id, info) collisions and the on_collision invocations made so far
tick_first_pass(hitboxes, st, k, n, pass) ==
    IF k > n THEN st
    ELSE LET blended == BeachBall_tick_blend(st.objs[k])
             j == collision_tester(hitboxes, blended)
             tested == IF j = 0 THEN blended
                       ELSE BeachBall_on_collision(blended, hitboxes[j].info)
         IN  tick_first_pass(hitboxes,
                 [objs |-> [st.objs EXCEPT ![k] = BeachBall_tick_move(tested)],
                  collisions |->
                      IF j = 0 THEN st.collisions
                      ELSE Append(st.collisions,
                                  <<hitboxes[j].id,
                                    BeachBall_collision_info(blended)>>),
                  on_collision |->
                      IF j = 0 THEN st.on_collision
                      ELSE Append(st.on_collision,
                                  [on |-> blended.id, info |-> hitboxes[j].info,
                                   pass |-> pass])],
                 k + 1, n, pass)

RECURSIVE tick_second_pass(_, _, _)
\* 114-118: the queued collisions are delivered to their targets
tick_second_pass(st, c, pass) ==
    IF c > Len(st.collisions) THEN st
    ELSE LET id == st.collisions[c][1]
             info == st.collisions[c][2]
             hit == {i \in 1..Len(st.objs) : st.objs[i].id = id}
         IN  tick_second_pass(
                 [st EXCEPT
                    !.objs = [i \in 1..Len(st.objs) |->
                                 IF i \in hit
                                 THEN BeachBall_on_collision(st.objs[i], info)
                                 ELSE st.objs[i]],
                    !.on_collision =
                        IF hit = {} THEN @
                        ELSE Append(@, [on |-> id, info |-> info,
                                        pass |-> pass])],
                 c + 1, pass)

\* 67-124: the object part of tick.  messages are the (id, data) pairs of
\* the objects whose server_tick gave Ok(Some(data)).
tick_objects(objects) ==
    LET Report(ticked, on_collision) ==
            LET Sends(i) == is_some(ticked[i].msg)
                senders == SelectSeq([i \in 1..Len(ticked) |-> i], Sends)
            IN  [objects |-> {ticked[i].self : i \in 1..Len(ticked)},
                 messages |->
                     [m \in 1..Len(senders) |->
                         <<ticked[senders[m]].self.id, ticked[senders[m]].msg.v>>],
                 on_collision |-> on_collision]
        ServerTick(second) ==
            Report([i \in 1..Len(second.objs) |->
                       BeachBall_server_tick(second.objs[i])],
                   second.on_collision)
        Passes(objs) ==
            ServerTick(tick_second_pass(
                tick_first_pass(CollectedHitboxes(objs),
                    [objs |-> objs, collisions |-> <<>>, on_collision |-> <<>>],
                    1, Len(objs), 1),
                1, 2))
    IN  Passes(ObjectSeq(objects))

\* 126-128
tick_object_messages(gs, messages) ==
    [i \in 1..Len(messages) |->
        notify_clients(gs.client_mapping,
                       UpdateObject(messages[i][1], messages[i][2]), All)]

\* Iterator::find on the iter_mut of world.clients: the index of the first
\* client at or after position pos whose id matches, 0 when there is none
clients_find(clients, pos, id) ==
    LET hits == {i \in pos..Len(clients) : clients[i].id = id}
    IN  IF hits = {} THEN 0 ELSE CHOOSE i \in hits : \A j \in hits : i <= j

RECURSIVE tick_apply(_, _, _, _)
\* the drain loop of tick: `clients` is ONE iterator shared by all queue
\* entries; pos is the index of the next client it will yield.  find consumes
\* the iterator up to and including the match, or to the end when none.
tick_apply(clients, queued_moves, k, pos) ==
    IF k > Len(queued_moves) THEN clients
    ELSE LET i == clients_find(clients, pos, queued_moves[k][1])
         IN  IF i = 0
             THEN tick_apply(clients, queued_moves, k + 1, Len(clients) + 1)
             ELSE tick_apply(
                      [clients EXCEPT
                          ![i] = Client_apply_action(@, queued_moves[k][2])],
                      queued_moves, k + 1, i + 1)

tick(gs) ==
    LET Drain(ticked, object_msgs) ==
            IF gs.queued_moves = <<>>
            THEN Ret(ticked, object_msgs)
            ELSE Ret([ticked EXCEPT
                        !.world.clients = tick_apply(@, gs.queued_moves, 1, 1),
                        !.queued_moves = <<>>],
                     Append(object_msgs,
                            notify_clients(gs.client_mapping,
                                           UpdateState(gs.queued_moves), All)))
        Objects(pass) ==
            Drain([gs EXCEPT !.world.network_objects = pass.objects],
                  tick_object_messages(gs, pass.messages))
    IN  Objects(tick_objects(gs.world.network_objects))

(***************************************************************************)
(* ServerGameState::update  (server.rs 147-206)                            *)
(***************************************************************************)
Connect_exists_never(clients, client_id) == FALSE

Connect_exists_first(clients, client_id) ==
    clients # <<>> /\ clients[1].id = client_id

Connect_exists(clients, client_id) ==
    \E i \in 1..Len(clients) : clients[i].id = client_id

\* the world after self.world.clients.push(client.clone()); the FullState is
\* serialized from it
Connect_push_before(world, client) == world

Connect_push(world, client) == [world EXCEPT !.clients = Append(@, client)]

update_Connect(gs, client_id, raw_name) ==
    LET t == String_truncate(raw_name, NAME_LIMIT)
        trimmed == trim(t.s)
        name == IF trimmed = <<>> THEN Anon ELSE trimmed
        client == Client_new(client_id, name, Position_default)
        world == Connect_push(gs.world, client)
    IN  IF t.panic THEN Panic(gs)
        ELSE IF Connect_exists(gs.world.clients, client_id) THEN Ret(gs, <<>>)
        ELSE Ret([gs EXCEPT !.world = world],
                 << notify_clients(gs.client_mapping,
                                   FullState(client_id, world), Only(client_id)),
                    notify_clients(gs.client_mapping,
                                   NewClient(client), AllExcept(client_id)) >>)

queue_action_push(queued_moves, client_id, action) ==
    Append(queued_moves, <<client_id, action>>)

\* the queue after update(client_id, Action(action))
queue_action(queued_moves, client_id, action) ==
    LET hits == {i \in 1..Len(queued_moves) : queued_moves[i][1] = client_id}
    IN  IF hits # {}
        THEN LET i == CHOOSE i \in hits : \A j \in hits : i <= j
             IN  [queued_moves EXCEPT
                    ![i] = <<client_id, ClientAction_combine(@[2], action)>>]
        ELSE Append(queued_moves, <<client_id, action>>)

update_Action_eager(gs, client_id, action) ==
    LET i == clients_find(gs.world.clients, 1, client_id)
    IN  Ret([gs EXCEPT
               !.queued_moves = queue_action(@, client_id, action),
               !.world.clients =
                   IF i = 0 THEN @
                   ELSE [@ EXCEPT ![i] = Client_apply_action(@, action)]],
            <<>>)

update_Action(gs, client_id, action) ==
    Ret([gs EXCEPT !.queued_moves = queue_action(@, client_id, action)], <<>>)

update_Chat(gs, client_id, message) ==
    LET t == String_truncate(message, MESSAGE_LIMIT)
    IN  IF t.panic THEN Panic(gs)
        ELSE Ret(gs, <<notify_clients(gs.client_mapping,
                                      Chat(client_id, t.s), All)>>)

update_UpdateObject(gs, client_id, id, data) ==
    IF ~\E o \in gs.world.network_objects : o.id = id THEN Ret(gs, <<>>)
    ELSE LET object == CHOOSE o \in gs.world.network_objects : o.id = id
             Handled(r) ==
                 LET handled == [gs EXCEPT !.world.network_objects =
                                              (@ \ {object}) \cup {r.self}]
                 IN  IF r.result = "Some"
                     THEN Ret(handled,
                              <<notify_clients(gs.client_mapping,
                                               UpdateObject(id, r.msg.v), All)>>)
                     ELSE Ret(handled, <<>>)
         IN  Handled(BeachBall_server_message(object, data))

(***************************************************************************)
(* ServerGameState::set_special_event  (server.rs 211-269)                 *)
(***************************************************************************)
\* the position rng.gen_range gives the k-th ball of a batch; the generator
\* is seeded with 0 on every call, so every batch gets the same positions
BallPosition(k) == <<8 * (k - 1), 0>>

RECURSIVE add_network_objects(_, _, _)
\* n calls of add_network_object; ids come from OBJECT_ID, first `next`
add_network_objects(gs, next, n) ==
    IF n = 0 THEN Ret(gs, <<>>)
    ELSE LET object == BeachBall_new(next, BallPosition(BallsPerEvent - n + 1))
             msg == notify_clients(gs.client_mapping,
                                   NewObject(next,
                                       BoxedNetworkObject_serialize(object)),
                                   All)
             rest == add_network_objects(
                         [gs EXCEPT !.world.network_objects = @ \cup {object}],
                         next + 1, n - 1)
         IN  Ret(rest.gs, <<msg>> \o rest.out)

remove_network_objects(gs, removed_ids) ==
    LET ids == SortedIds(removed_ids)
    IN  Ret([gs EXCEPT !.world.network_objects =
                           {o \in @ : o.id \notin removed_ids}],
            [i \in 1..Len(ids) |->
                notify_clients(gs.client_mapping, DeleteObject(ids[i]), All)])

\* a collection that stops at the first BeachBall
removed_ids_first(objects) ==
    {o.id : o \in {o \in objects :
                      /\ o.kind = BEACH_BALL_KIND
                      /\ \A q \in objects :
                            q.kind = BEACH_BALL_KIND => o.id <= q.id}}

\* 228-239: the ObjectIds of the objects whose box holds a BeachBall
removed_ids(objects) ==
    {o.id : o \in {o \in objects : o.kind = BEACH_BALL_KIND}}

set_special_event(gs, next, event, active) ==
    LET r == IF active
             THEN add_network_objects(gs, next, BallsPerEvent)
             ELSE remove_network_objects(gs,
                      removed_ids(gs.world.network_objects))
    IN  Ret([r.gs EXCEPT !.world.special_events.beach_episode = active],
            Append(r.out, notify_clients(gs.client_mapping,
                                         SpecialEventMsg(event, active), All)))

(***************************************************************************)
(* State                                                                   *)
(***************************************************************************)
VARIABLES
    game_state,     \* GAME_STATE: the ServerGameState behind the mutex
    poisoned,       \* a handler panicked while holding the GAME_STATE lock
    CLIENT_ID,      \* the ClientId counter (client/mod.rs:13)
    OBJECT_ID,      \* the ObjectId counter (world.rs)
    out,            \* the broadcasts of the last handler, in order
    last,           \* the last handler that ran and its arguments
    steps,          \* number of handlers run so far
    actors,         \* ids that sent an Action since the previous tick
    departed,       \* per id, the number of remove_client calls so far
    left_count,     \* per <<id, r>>, ClientLeft(id) notifications given to r
    CONNECTED_IPS,  \* game_server.rs:30, per IP the ClientId or NoId
    BANNED_IPS,     \* game_server.rs:47
    conn,           \* per ClientId, the tasks of its connection
    acc,            \* SpecCombine: the folded ClientAction
    hist,           \* SpecCombine: the actions folded so far, in order
    full_states,    \* per <<id, r>>, FullState(id, ..) messages given to r
    NETWORK_OBJ_ID, \* the NetworkObjectId counter (network_object.rs:19)
    returned,       \* SpecIds: per allocator, the ids returned so far
    collision,      \* SpecCollision, SpecTester: the last call and its result
    codec,          \* SpecCodec: the last encoding and decoding
    channels,       \* SpecNotify: per ClientId, the state of its channel
    delivered,      \* SpecNotify: per broadcast of out, the channels that got it
    serial,         \* SpecOrder: the number of broadcasts made under the lock
    queue,          \* SpecOrder: per ClientId, the messages in its channel
    received,       \* SpecOrder: per ClientId, the messages its socket was sent
    reload,         \* SpecReload: the read_banned_ips call of server/src/main.rs
    mirrors,        \* SpecRefine: per ClientId, the game_state of its web client
    inbox,          \* SpecRefine: per ClientId, the ServerMessages on their way
    upstream,       \* SpecRefine: per ClientId, the ClientMessages on their way
    applied,        \* SpecApply: the last Client::apply_action call
    cgs,            \* game_state of the web client: None or Some(ClientGameState)
    sent            \* the last call on cgs and the messages it sent

vars == <<game_state, poisoned, CLIENT_ID, OBJECT_ID, out, last, steps,
          actors, departed, left_count, CONNECTED_IPS, BANNED_IPS, conn,
          acc, hist, full_states, NETWORK_OBJ_ID, returned, collision, codec,
          channels, delivered, serial, queue, received, reload, mirrors, inbox, upstream,
          applied, cgs, sent>>

gsVars == <<game_state, poisoned, CLIENT_ID, OBJECT_ID, out, last, steps,
            actors, departed, left_count, full_states>>
combineVars == <<acc, hist>>
serverVars == <<CONNECTED_IPS, BANNED_IPS, conn>>
\* the variables only the specifications of single functions change
orderVars == <<serial, queue, received>>
reloadVars == <<reload>>
refineVars == <<mirrors, inbox, upstream>>
notifyVars == <<channels, delivered, orderVars, reloadVars, refineVars>>
clientVars == <<applied, cgs, sent>>
pureVars == <<NETWORK_OBJ_ID, returned, collision, codec, notifyVars, clientVars>>

\* remote addresses (x-real-ip); Local is 127.0.0.1 without the header
Ips == {"ip1"}
Local == "local"

Ids == 0..(MaxClients - 1)
NoId == -1

\* inputs of the handlers.  A Connect name reaches update only through the
\* recv task, which has already truncated it to NAME_LIMIT bytes
\* (game_server.rs 320-321); Chat texts reach update as received.
ConnectNames == {<<>>, <<" ", "b">>}
ActionInputs ==
    { ClientAction_typing(
          ClientAction_movement(ClientAction_new, <<1, 0>>, "Up"), TRUE),
      ClientAction_look(ClientAction_new, "Left") }
ShortText == <<"h", "e2">>
ChatTexts == {ShortText}

\* payloads of UpdateObject: undecodable bytes, and the collision a client
\* reports for a player walking into a ball from the left
UpdateObjectInputs ==
    { Bytes_garbage,
      Bytes_of(CollisionInfo_new_player(<<0, 8>>, <<F(1000), F(0)>>)) }

\* the three id allocators
Allocators == {"ClientId", "ObjectId", "NetworkObjectId"}

Op(name, id) == [op |-> name, id |-> id]

\* full_states after the broadcasts o
count_full_states(fs, o) ==
    [p \in Ids \X Ids |->
        fs[p] + Cardinality({i \in 1..Len(o) :
                                /\ o[i].msg.type = "FullState"
                                /\ o[i].msg.own_id = p[1]
                                /\ p[2] \in Range(o[i].to)})]

Init ==
    /\ game_state = ServerGameState_new
    /\ poisoned = FALSE
    /\ CLIENT_ID = 0
    /\ OBJECT_ID = 0
    /\ out = <<>>
    /\ last = Op("init", NoId)
    /\ steps = 0
    /\ actors = {}
    /\ departed = [id \in Ids |-> 0]
    /\ left_count = [p \in Ids \X Ids |-> 0]
    /\ CONNECTED_IPS = [ip \in Ips |-> NoId]
    /\ BANNED_IPS = {}
    /\ conn = [id \in Ids |-> [pc |-> "none", ip |-> Local, connected |-> FALSE,
                               recv |-> "none", send |-> "none"]]
    /\ acc = ClientAction_new
    /\ hist = <<>>
    /\ full_states = [p \in Ids \X Ids |-> 0]
    /\ NETWORK_OBJ_ID = 0
    /\ returned = [a \in Allocators |-> <<>>]
    /\ collision = [op |-> "none"]
    /\ codec = [op |-> "none"]
    /\ channels = [id \in Ids |-> "open"]
    /\ serial = 0
    /\ queue = [id \in Ids |-> <<>>]
    /\ received = [id \in Ids |-> <<>>]
    /\ reload = [pc |-> "idle", banned_ips |-> {}, todo |-> {}, ip |-> Local,
                 connected_ips |-> "free"]
    /\ delivered = <<>>
    /\ mirrors = [id \in Ids |-> [gs |-> None, panic |-> FALSE]]
    /\ inbox = [id \in Ids |-> <<>>]
    /\ upstream = [id \in Ids |-> <<>>]
    /\ applied = [op |-> "none"]
    /\ cgs = None
    /\ sent = [op |-> "none", msg |-> None, msgs |-> <<>>, panic |-> FALSE,
               calls |-> 0, delta |-> 0, keyboard |-> <<>>,
               action_time |-> None, held |-> None]

\* the effect of one handler that ran under the GAME_STATE lock
Apply(r, op) ==
    /\ ~poisoned
    /\ steps < MaxSteps
    /\ steps' = steps + 1
    /\ game_state' = r.gs
    /\ poisoned' = r.panic
    /\ out' = r.out
    /\ last' = op
    /\ full_states' = count_full_states(full_states, r.out)
    /\ UNCHANGED pureVars

(***************************************************************************)
(* Calls on the ServerGameState                                            *)
(***************************************************************************)
NewClientCall ==
    /\ CLIENT_ID < MaxClients
    /\ Apply(new_client(game_state, CLIENT_ID), Op("new_client", CLIENT_ID))
    /\ CLIENT_ID' = CLIENT_ID + 1
    /\ UNCHANGED <<OBJECT_ID, actors, departed, left_count, combineVars, serverVars>>

RemoveClientCall(id) ==
    /\ id < CLIENT_ID
    /\ departed[id] < 2
    /\ LET r == remove_client(game_state, id)
       IN  /\ Apply(r, Op("remove_client", id))
           /\ left_count' =
                [p \in Ids \X Ids |->
                    IF p[1] = id /\ p[2] \in Range(r.out[1].to)
                    THEN left_count[p] + 1 ELSE left_count[p]]
    /\ departed' = [departed EXCEPT ![id] = @ + 1]
    /\ UNCHANGED <<CLIENT_ID, OBJECT_ID, actors, combineVars, serverVars>>

TickCall ==
    /\ Apply(tick(game_state),
             [op |-> "tick", id |-> NoId,
              on_collision |->
                  tick_objects(game_state.world.network_objects).on_collision])
    /\ actors' = {}
    /\ UNCHANGED <<CLIENT_ID, OBJECT_ID, departed, left_count, combineVars, serverVars>>

ConnectCall(id) ==
    /\ id < CLIENT_ID
    /\ \E name \in ConnectNames :
          Apply(update_Connect(game_state, id, name),
                [op |-> "Connect", id |-> id,
                 existed |-> id \in {c.id : c \in Range(game_state.world.clients)}])
    /\ UNCHANGED <<CLIENT_ID, OBJECT_ID, actors, departed, left_count,
                   combineVars, serverVars>>

ActionCall(id) ==
    /\ id < CLIENT_ID
    /\ \E a \in ActionInputs :
          Apply(update_Action(game_state, id, a), Op("Action", id))
    /\ actors' = actors \cup {id}
    /\ UNCHANGED <<CLIENT_ID, OBJECT_ID, departed, left_count, combineVars, serverVars>>

ChatCall(id) ==
    /\ id < CLIENT_ID
    /\ \E text \in ChatTexts :
          Apply(update_Chat(game_state, id, text), Op("Chat", id))
    /\ UNCHANGED <<CLIENT_ID, OBJECT_ID, actors, departed, left_count,
                   combineVars, serverVars>>

UpdateObjectCall(id) ==
    /\ id < CLIENT_ID
    /\ \E obj \in 0..(MaxObjects - 1), data \in UpdateObjectInputs :
          Apply(update_UpdateObject(game_state, id, obj, data),
                [op |-> "UpdateObject", id |-> id, obj |-> obj, data |-> data])
    /\ UNCHANGED <<CLIENT_ID, OBJECT_ID, actors, departed, left_count,
                   combineVars, serverVars>>

SetSpecialEventCall(active) ==
    /\ active => OBJECT_ID + BallsPerEvent <= MaxObjects
    /\ Apply(set_special_event(game_state, OBJECT_ID, "BeachEpisode", active),
             [op |-> "set_special_event", id |-> NoId, active |-> active])
    /\ OBJECT_ID' = IF active THEN OBJECT_ID + BallsPerEvent ELSE OBJECT_ID
    /\ UNCHANGED <<CLIENT_ID, actors, departed, left_count, combineVars, serverVars>>

Next ==
    \/ NewClientCall
    \/ \E id \in Ids : RemoveClientCall(id)
    \/ TickCall
    \/ \E id \in Ids : ConnectCall(id)
    \/ \E id \in Ids : ActionCall(id)
    \/ \E id \in Ids : ChatCall(id)
    \/ \E id \in Ids : UpdateObjectCall(id)
    \/ \E active \in BOOLEAN : SetSpecialEventCall(active)

Spec == Init /\ [][Next]_vars

(***************************************************************************)
(* ClientGameState::new  (client/state.rs 87-97)                           *)
(* position(..).unwrap() panics when the world does not hold client_id;    *)
(* otherwise the own client is swapped to the front of the mirror.         *)
(***************************************************************************)
ClientGameState_new(client_id, world) ==
    LET own_client == clients_find(world.clients, 1, client_id)
    IN  IF own_client = 0
        THEN [panic |-> TRUE, own_id |-> client_id, world |-> world]
        ELSE [panic |-> FALSE, own_id |-> client_id,
              world |-> [world EXCEPT !.clients =
                            [@ EXCEPT ![1] = world.clients[own_client],
                                      ![own_client] = world.clients[1]]]]

\* SerializedClientGameState::serialize (server.rs 311-313): the unwrap
\* panics when the world does not decode
SerializedClientGameState_serialize(state) ==
    LET world == WorldState_deserialize(state.world)
    IN  IF ~world.ok
        THEN [panic |-> TRUE, own_id |-> state.own_id, world |-> state.world]
        ELSE ClientGameState_new(state.own_id, world.v)

(***************************************************************************)
(* Properties of ServerGameState (specification Spec)                      *)
(***************************************************************************)
ClientIds(clients) == {clients[i].id : i \in 1..Len(clients)}
UpdateStates(o) == {i \in 1..Len(o) : o[i].msg.type = "UpdateState"}

\* C1: a tick with an empty pending-action queue broadcasts no UpdateState; a
\* tick with a non-empty queue broadcasts exactly one UpdateState, holding
\* exactly one entry for each distinct id that sent an Action since the
\* previous tick.
C1_TickConservation ==
    [][last'.op = "tick" =>
        LET us == UpdateStates(out')
        IN  /\ game_state.queued_moves = <<>> => us = {}
            /\ game_state.queued_moves # <<>> =>
                 /\ Cardinality(us) = 1
                 /\ \A i \in us :
                      LET u == out'[i].msg.updates
                      IN  /\ {u[k][1] : k \in 1..Len(u)} = actors
                          /\ \A k, l \in 1..Len(u) : u[k][1] = u[l][1] => k = l
       ]_vars

\* C1 witness: a tick broadcast one UpdateState with entries of two clients,
\* one of them the coalescing of a Move and a later Look
C1_Witness ==
    /\ last.op = "tick"
    /\ \E i \in UpdateStates(out) :
         /\ Len(out[i].msg.updates) = 2
         /\ \E k \in 1..2 :
              out[i].msg.updates[k][2].movement = Some(Move(<<1, 0>>, "Left"))

\* C2: after a tick every queued (id, action) whose id has a Client has been
\* applied to that Client, whatever the order of the queue relative to
\* world.clients, and the queue is empty.
C2_AllQueuedApplied ==
    [][last'.op = "tick" =>
        LET q == game_state.queued_moves
            cs == game_state.world.clients
        IN  /\ game_state'.queued_moves = <<>>
            /\ \A k \in 1..Len(q) : \A i \in 1..Len(cs) :
                 cs[i].id = q[k][1] =>
                    game_state'.world.clients[i] =
                        Client_apply_action(cs[i], q[k][2])
       ]_vars

\* C6: update(id, Connect) for an id without a Client sends exactly two
\* messages, in this order: FullState to id's channel only, then NewClient
\* to every other registered channel and not to id.
C6_ConnectMessages ==
    (last.op = "Connect" /\ ~last.existed) =>
        /\ Len(out) = 2
        /\ out[1].msg.type = "FullState"
        /\ out[1].msg.own_id = last.id
        /\ out[1].to = IF last.id \in Range(game_state.client_mapping)
                       THEN <<last.id>> ELSE <<>>
        /\ out[2].msg.type = "NewClient"
        /\ out[2].msg.client.id = last.id
        /\ Range(out[2].to) = Range(game_state.client_mapping) \ {last.id}
        /\ \A i, j \in 1..Len(out[2].to) : out[2].to[i] = out[2].to[j] => i = j

\* C6 witness: a first Connect of a registered id while another channel is
\* registered
C6_Witness ==
    /\ last.op = "Connect" /\ ~last.existed
    /\ out[1].to = <<last.id>>
    /\ out[2].to # <<>>

\* C7 (as claimed): the FullState snapshot lists exactly the clients that
\* were already connected and not the connecting client.
C7_SnapshotExcludesSelf ==
    [][(last'.op = "Connect" /\ ~last'.existed) =>
        /\ out'[1].msg.world.clients = game_state.world.clients
        /\ last'.id \notin ClientIds(out'[1].msg.world.clients)
       ]_vars

\* C7 (amended): the FullState snapshot lists the clients that were already
\* connected followed by the connecting client itself, and
\* ClientGameState::new builds the mirror from it with the connecting client
\* first and the others after it.
C7_SnapshotIncludesSelf ==
    [][(last'.op = "Connect" /\ ~last'.existed) =>
        LET snap == out'[1].msg.world.clients
            n == Len(game_state.world.clients)
            mirror == SerializedClientGameState_serialize(out'[1].msg)
        IN  /\ Len(snap) = n + 1
            /\ SubSeq(snap, 1, n) = game_state.world.clients
            /\ snap[n + 1].id = last'.id
            /\ ~mirror.panic
            /\ mirror.world.clients[1].id = last'.id
            /\ ClientIds(mirror.world.clients) =
                   ClientIds(game_state.world.clients) \cup {last'.id}
       ]_vars

\* C7 witness: a client connected while another client was in the world
C7_Witness ==
    /\ last.op = "Connect" /\ ~last.existed
    /\ Len(out[1].msg.world.clients) = 2
    /\ out[1].to = <<last.id>>

\* C8: update(id, Connect) for an id that already has a Client changes
\* neither the world, the channel list nor the queue and sends nothing.
C8_DuplicateConnectNoOp ==
    [][(last'.op = "Connect" /\ last'.existed) =>
        /\ game_state' = game_state
        /\ out' = <<>>
       ]_vars

\* C8 witness: a Connect arrived for an id whose Client exists
C8_Witness ==
    /\ last.op = "Connect" /\ last.existed
    /\ last.id \in ClientIds(game_state.world.clients)

\* C9: no two Clients of world.clients have the same ClientId.
C9_UniqueClientIds ==
    \A i, j \in 1..Len(game_state.world.clients) :
        game_state.world.clients[i].id = game_state.world.clients[j].id => i = j

\* C9 witness: two clients are in the world and a repeated Connect of the
\* second was handled
C9_Witness ==
    /\ Len(game_state.world.clients) = 2
    /\ last.op = "Connect" /\ last.existed
    /\ game_state.world.clients[2].id = last.id

\* C10: update(id, Action) changes only the pending-action queue and sends
\* nothing; an existing Client is changed by tick only.
C10_ActionOnlyQueues ==
    [][/\ last'.op = "Action" =>
            /\ game_state'.world = game_state.world
            /\ game_state'.client_mapping = game_state.client_mapping
            /\ out' = <<>>
       /\ (\E i \in 1..Len(game_state.world.clients) :
             \E j \in 1..Len(game_state'.world.clients) :
                /\ game_state.world.clients[i].id = game_state'.world.clients[j].id
                /\ game_state.world.clients[i] # game_state'.world.clients[j])
            => last'.op = "tick"
      ]_vars

\* C10 witness: an Action is queued for a connected client whose Client still
\* has its old position
C10_Witness ==
    /\ last.op = "Action"
    /\ \E i \in 1..Len(game_state.world.clients) :
         \E k \in 1..Len(game_state.queued_moves) :
            /\ game_state.world.clients[i].id = last.id
            /\ game_state.queued_moves[k][1] = last.id
            /\ is_some(game_state.queued_moves[k][2].movement)
            /\ game_state.queued_moves[k][2].movement.v.kind = "Move"
            /\ game_state.queued_moves[k][2].movement.v.pos
                  # game_state.world.clients[i].position

\* C13: update(id, UpdateObject(obj_id, bytes)) for an obj_id that is not in
\* the world, or with bytes the object's server_message rejects, sends
\* nothing and leaves the world unchanged; when server_message gives
\* Ok(Some(b)) exactly one UpdateObject(obj_id, b) goes to every registered
\* channel.
C13_UpdateObjectErrors ==
    [][last'.op = "UpdateObject" =>
        LET known == {o \in game_state.world.network_objects :
                         o.id = last'.obj}
        IN  IF known = {} \/ ~last'.data.ok
            THEN /\ out' = <<>>
                 /\ game_state'.world = game_state.world
            ELSE /\ Len(out') = 1
                 /\ out'[1].msg.type = "UpdateObject"
                 /\ out'[1].msg.id = last'.obj
                 /\ \E o \in game_state'.world.network_objects :
                       /\ o.id = last'.obj
                       /\ out'[1].msg.data =
                              [position |-> o.position_f, velocity |-> o.velocity]
                 /\ out'[1].to = game_state.client_mapping
       ]_vars

\* C13 witness: undecodable bytes arrived for a ball that is in the world
\* and moving, while a channel is registered
C13_Witness ==
    /\ last.op = "UpdateObject"
    /\ ~last.data.ok
    /\ game_state.client_mapping # <<>>
    /\ \E o \in game_state.world.network_objects :
          o.id = last.obj /\ o.velocity # <<F(0), F(0)>>

\* C23: set_special_event sends exactly one NewObject(id, ..) for every
\* object it adds and exactly one DeleteObject(id) for every object it
\* removes, each to all clients, and then SpecialEvent{event, active} as the
\* last message; after set_special_event(BeachEpisode, false) the world holds
\* no BeachBall.
C23_SpecialEventMessages ==
    [][last'.op = "set_special_event" =>
        LET before == {o.id : o \in game_state.world.network_objects}
            after == {o.id : o \in game_state'.world.network_objects}
            n == Len(out')
            Sent(type, id) == {i \in 1..n : /\ out'[i].msg.type = type
                                             /\ out'[i].msg.id = id}
        IN  /\ n = 1 + Cardinality(after \ before) + Cardinality(before \ after)
            /\ out'[n].msg = SpecialEventMsg("BeachEpisode", last'.active)
            /\ \A id \in after \ before :
                  Cardinality(Sent("NewObject", id)) = 1
            /\ \A id \in before \ after :
                  Cardinality(Sent("DeleteObject", id)) = 1
            /\ \A i \in 1..n : out'[i].to = game_state.client_mapping
            /\ game_state'.world.special_events.beach_episode = last'.active
            /\ ~last'.active =>
                  ~\E o \in game_state'.world.network_objects :
                        o.kind = BEACH_BALL_KIND
       ]_vars

\* C23 witness: the event was switched off while the world held two balls
\* and a channel was registered
C23_Witness ==
    /\ last.op = "set_special_event"
    /\ ~last.active
    /\ Len(out) = 3
    /\ out[1].msg.type = "DeleteObject"
    /\ out[1].to # <<>>

\* C16: when the world holds two objects whose hitboxes intersect at the
\* start of a tick, on_collision is invoked exactly once on each of them in
\* that tick, with the CollisionInfo the other had at the start of the tick.
C16_CollisionOncePerObject ==
    [][last'.op = "tick" =>
        \A a, b \in game_state.world.network_objects :
            ( /\ Cardinality(game_state.world.network_objects) = 2
              /\ a.id # b.id
              /\ Rect_intersects(BeachBall_hitbox(a), BeachBall_hitbox(b)) )
            => LET calls == {i \in 1..Len(last'.on_collision) :
                                last'.on_collision[i].on = a.id}
               IN  /\ Cardinality(calls) = 1
                   /\ \A i \in calls :
                         last'.on_collision[i].info = BeachBall_collision_info(b)
       ]_vars

(***************************************************************************)
(* SpecCombine: the actions of one client arriving between two ticks are   *)
(* folded as update(Action) does: the first is pushed, each later one is   *)
(* combined into the queued one.                                           *)
(***************************************************************************)
CombineStep ==
    /\ Len(hist) < MaxLen
    /\ \E a \in AllActions :
          /\ acc' = queue_action(IF hist = <<>> THEN <<>> ELSE <<<<0, acc>>>>,
                                 0, a)[1][2]
          /\ hist' = Append(hist, a)
    /\ UNCHANGED <<gsVars, serverVars, pureVars>>

NextCombine == CombineStep

SpecCombine == Init /\ [][NextCombine]_vars

RECURSIVE LastSome(_, _)
\* the last Some value of field f in a sequence of actions, None if none
LastSome(h, f) ==
    IF h = <<>> THEN None
    ELSE IF is_some(h[Len(h)][f]) THEN h[Len(h)][f]
    ELSE LastSome(SubSeq(h, 1, Len(h) - 1), f)

\* C3: folding a sequence of ClientActions with combine leaves in each field
\* the last Some value of that field in the sequence (None when there is
\* none).
C3_LastSomeSurvives ==
    hist # <<>> =>
        /\ acc.movement = LastSome(hist, "movement")
        /\ acc.typing = LastSome(hist, "typing")

(***************************************************************************)
(* SpecText: calls on the ServerGameState with Chat texts of every length  *)
(* class: short, longer than MESSAGE_LIMIT with a char boundary at the     *)
(* limit, and longer with a two-byte char across the limit.  The recv task *)
(* forwards a Chat text as it arrived (game_server.rs 324-357).            *)
(***************************************************************************)
Repeat(c, n) == [i \in 1..n |-> c]
\* MESSAGE_LIMIT + 2 bytes, byte MESSAGE_LIMIT is a char boundary
LongText == Repeat("a", MESSAGE_LIMIT) \o <<"e2">>
\* MESSAGE_LIMIT + 2 bytes, byte MESSAGE_LIMIT is inside the two-byte char
SplitText == Repeat("a", MESSAGE_LIMIT - 1) \o <<"e2", "b">>
TextInputs == {ShortText, LongText, SplitText}

TextChatCall(id) ==
    /\ id < CLIENT_ID
    /\ \E text \in TextInputs :
          Apply(update_Chat(game_state, id, text),
                [op |-> "Chat", id |-> id, text |-> text])
    /\ UNCHANGED <<CLIENT_ID, OBJECT_ID, actors, departed, left_count,
                   combineVars, serverVars>>

\* run 104-107: GAME_STATE.lock().unwrap() in the tick loop once a handler
\* panicked under the lock: the unwrap panics and the tick task ends
TickPoisoned ==
    /\ poisoned
    /\ last.op # "tick_task_panic"
    /\ last' = Op("tick_task_panic", NoId)
    /\ out' = <<>>
    /\ UNCHANGED <<game_state, poisoned, CLIENT_ID, OBJECT_ID, steps, actors,
                   departed, left_count, full_states, combineVars, serverVars,
                   pureVars>>

NextText ==
    \/ NewClientCall
    \/ \E id \in Ids : ConnectCall(id)
    \/ \E id \in Ids : ActionCall(id)
    \/ \E id \in Ids : TextChatCall(id)
    \/ TickCall
    \/ TickPoisoned

SpecText == Init /\ [][NextText]_vars

\* s is a prefix of t
IsPrefix(s, t) == Len(s) <= Len(t) /\ s = SubSeq(t, 1, Len(s))

\* C11: update(id, Chat(msg)) sends Chat(id, m) to every registered channel,
\* id's own included, where m is msg cut to at most MESSAGE_LIMIT bytes (msg
\* itself when it is not longer); world and queue are unchanged.
C11_ChatBroadcast ==
    [][last'.op = "Chat" =>
        /\ Len(out') = 1
        /\ out'[1].msg.type = "Chat"
        /\ out'[1].msg.id = last'.id
        /\ IsPrefix(out'[1].msg.text, last'.text)
        /\ byte_len(out'[1].msg.text) <= MESSAGE_LIMIT
        /\ byte_len(last'.text) <= MESSAGE_LIMIT => out'[1].msg.text = last'.text
        /\ out'[1].to = game_state.client_mapping
        /\ game_state' = game_state
       ]_vars

\* C12: no ClientMessage makes update fail: no handler panics under the
\* GAME_STATE lock, so the lock is never poisoned and tick and update keep
\* running.
C12_UpdateNeverFails ==
    /\ ~poisoned
    /\ last.op # "tick_task_panic"

(***************************************************************************)
(* SpecCollision: CollisionInfo::apply and apply_with_force on inputs      *)
(* drawn from static, resting and moving objects and players, at equal,    *)
(* axis-aligned and diagonal centers.                                      *)
(***************************************************************************)
CollisionCenters == {<<0, 0>>, <<8, 0>>, <<3, 4>>}
CollisionVelocities ==
    {None, Some(<<F(0), F(0)>>), Some(<<F(5000), F(-2500)>>)}
CollisionInputs ==
    [center : CollisionCenters, velocity : CollisionVelocities,
     is_player : BOOLEAN]
ForceInputs == {F(0), F(1200)}

\* one call of each function per behaviour
CollisionApplyStep ==
    /\ collision.op = "none"
    /\ \E self \in CollisionInputs, other \in CollisionInputs,
          force \in ForceInputs :
          collision' =
              [op |-> "apply", self |-> self, other |-> other, force |-> force,
               apply |-> CollisionInfo_apply(self, other),
               apply_with_force |->
                   CollisionInfo_apply_with_force(self, other, force)]
    /\ UNCHANGED <<gsVars, combineVars, serverVars, NETWORK_OBJ_ID, returned,
                   codec, notifyVars, clientVars>>

NextCollision == CollisionApplyStep

SpecCollision == Init /\ [][NextCollision]_vars

\* a velocity component within [-5.0, 5.0]
InLimit(x) == ~x.nan /\ -5000 <= x.v /\ x.v <= 5000

\* C17: both components of the velocity returned by CollisionInfo::apply and
\* by CollisionInfo::apply_with_force lie in [-5.0, 5.0], for every self,
\* other and force.
C17_VelocityClamped ==
    collision.op = "apply" =>
        /\ InLimit(collision.apply[1]) /\ InLimit(collision.apply[2])
        /\ InLimit(collision.apply_with_force[1])
        /\ InLimit(collision.apply_with_force[2])

\* C18: CollisionInfo::apply on a static self (velocity None) returns
\* (0.0, 0.0) for every other, also one at the same center.
C18_StaticStaysAtRest ==
    (collision.op = "apply" /\ CollisionInfo_is_static(collision.self)) =>
        collision.apply = <<F(0), F(0)>>

\* C18 witness: apply ran on a static self and a moving other at the same
\* center
C18_Witness ==
    /\ collision.op = "apply"
    /\ CollisionInfo_is_static(collision.self)
    /\ ~CollisionInfo_is_static(collision.other)
    /\ collision.self.center = collision.other.center

(***************************************************************************)
(* SpecIds: calls of ClientId::new, ObjectId::new and NetworkObjectId::new *)
(* from any task.  A call is one fetch_add(1, SeqCst), which returns the   *)
(* old value and wraps on overflow; calls are ordered by their fetch_add.  *)
(***************************************************************************)
\* an increment that is lost, as a separate load and store would allow
fetch_add_lost(counter) == counter

fetch_add(counter) == (counter + 1) % (2 ^ IdBits)

\* the allocator may be called once more than it has distinct values
MoreCalls(a) == Len(returned[a]) <= 2 ^ IdBits

idRest == <<game_state, poisoned, out, last, steps, actors, departed,
            left_count, full_states, combineVars, serverVars, collision, codec,
            notifyVars, clientVars>>

ClientId_new ==
    /\ MoreCalls("ClientId")
    /\ returned' = [returned EXCEPT !["ClientId"] = Append(@, CLIENT_ID)]
    /\ CLIENT_ID' = fetch_add(CLIENT_ID)
    /\ UNCHANGED <<OBJECT_ID, NETWORK_OBJ_ID, idRest>>

ObjectId_new ==
    /\ MoreCalls("ObjectId")
    /\ returned' = [returned EXCEPT !["ObjectId"] = Append(@, OBJECT_ID)]
    /\ OBJECT_ID' = fetch_add(OBJECT_ID)
    /\ UNCHANGED <<CLIENT_ID, NETWORK_OBJ_ID, idRest>>

NetworkObjectId_new ==
    /\ MoreCalls("NetworkObjectId")
    /\ returned' = [returned EXCEPT
                      !["NetworkObjectId"] = Append(@, NETWORK_OBJ_ID)]
    /\ NETWORK_OBJ_ID' = fetch_add(NETWORK_OBJ_ID)
    /\ UNCHANGED <<CLIENT_ID, OBJECT_ID, idRest>>

NextIds == ClientId_new \/ ObjectId_new \/ NetworkObjectId_new

SpecIds == Init /\ [][NextIds]_vars

\* C19 (as claimed): every id an allocator returns is strictly greater than
\* every id it returned before, so no two calls ever return the same id.
C19_IdsStrictlyIncrease ==
    \A a \in Allocators :
        \A i, j \in 1..Len(returned[a]) :
            i < j => returned[a][i] < returned[a][j]

\* C19 (amended): the first 2^w ids an allocator returns (w the width of its
\* counter) are strictly increasing, hence distinct, whatever the
\* interleaving of the calls; the call after them returns 0 again.
C19_IdsIncreaseUntilExhausted ==
    \A a \in Allocators :
        /\ \A i, j \in 1..Len(returned[a]) :
              (i < j /\ j <= 2 ^ IdBits) => returned[a][i] < returned[a][j]
        /\ Len(returned[a]) > 2 ^ IdBits => returned[a][2 ^ IdBits + 1] = 0

\* C19 witness: one allocator has returned every value of its counter and
\* one more, while calls of another allocator were interleaved
C19_Witness ==
    /\ Len(returned["ClientId"]) = 2 ^ IdBits + 1
    /\ Len(returned["ObjectId"]) = 2

(***************************************************************************)
(* SpecCodec: one BoxedNetworkObject is encoded and decoded again, or one  *)
(* world payload is decoded by SerializedClientGameState::serialize.  A    *)
(* payload may carry a kind tag that has no decoder in this process.       *)
(***************************************************************************)
UNKNOWN_KIND == 1

CodecVelocities == {<<F(0), F(0)>>, <<F(2200), F(0)>>, <<F(-5000), F(1250)>>}

BallInputs ==
    {[id |-> 0, kind |-> BEACH_BALL_KIND, position |-> p, position_f |-> pf,
      velocity |-> v, angle |-> a, queued_collision |-> q] :
        p \in {<<0, 0>>, <<8, -3>>},
        pf \in {<<F(0), F(0)>>, <<F(8500), F(-3250)>>},
        v \in CodecVelocities,
        a \in {F(0), F(16500)},
        q \in {None, Some(CollisionInfo_new_dynamic(<<8, 8>>, <<F(0), F(0)>>))}}

\* worlds of one or two clients and up to two balls
WorldInputs ==
    {[clients |-> cs, special_events |-> [beach_episode |-> TRUE],
      network_objects |-> balls] :
        cs \in {<<Client_new(0, Anon, Position_default)>>,
                <<Client_new(1, Anon, Position_default),
                  Client_new(0, Anon, Position_default)>>},
        balls \in SUBSET {[BeachBall_new(id, BallPosition(id + 1))
                              EXCEPT !.velocity = v] :
                             id \in {0, 1}, v \in CodecVelocities}}

\* the payload with the kind tag of the objects in `ids` replaced
Retag(bytes, ids) ==
    [bytes EXCEPT !.network_objects =
        {IF e[1] \in ids THEN <<e[1], <<UNKNOWN_KIND, e[2][2]>>>> ELSE e :
            e \in @}]

WorldPayloads ==
    {Retag(WorldState_serialize(w), ids) :
        w \in {w \in WorldInputs :
                 \A a, b \in w.network_objects : a.id = b.id => a = b},
        ids \in SUBSET {0, 1}}

\* one call per behaviour
CodecObjectStep ==
    /\ codec.op = "none"
    /\ \E x \in BallInputs :
          LET bytes == BoxedNetworkObject_serialize(x)
          IN  codec' = [op |-> "object", x |-> x, bytes |-> bytes,
                        decoded |-> BoxedNetworkObject_deserialize(x.id, bytes)]
    /\ UNCHANGED <<gsVars, combineVars, serverVars, NETWORK_OBJ_ID, returned,
                   collision, notifyVars, clientVars>>

CodecWorldStep ==
    /\ codec.op = "none"
    /\ \E bytes \in WorldPayloads :
          codec' = [op |-> "world", bytes |-> bytes,
                    state |-> SerializedClientGameState_serialize(
                                  [own_id |-> 0, world |-> bytes])]
    /\ UNCHANGED <<gsVars, combineVars, serverVars, NETWORK_OBJ_ID, returned,
                   collision, notifyVars, clientVars>>

NextCodec == CodecObjectStep \/ CodecWorldStep

SpecCodec == Init /\ [][NextCodec]_vars

\* C14: decoding a world payload in which an object carries a kind without a
\* decoder does not crash: the clients and the objects of known kinds are
\* decoded.
C14_UnknownKindIsolated ==
    codec.op = "world" =>
        /\ ~codec.state.panic
        /\ {c.id : c \in Range(codec.state.world.clients)} =
               {c.id : c \in Range(codec.bytes.clients)}
        /\ {o.id : o \in codec.state.world.network_objects} =
               {e[1] : e \in {e \in codec.bytes.network_objects :
                                 e[2][1] \in Decoders}}

RawNames == {<<>>, <<" ", "b">>}

\* one handler under the GAME_STATE lock, called from a task
ApplyServer(r, op) ==
    /\ ~poisoned
    /\ steps < MaxServerSteps
    /\ steps' = steps + 1
    /\ game_state' = r.gs
    /\ poisoned' = r.panic
    /\ out' = r.out
    /\ last' = op
    /\ full_states' = count_full_states(full_states, r.out)
    /\ UNCHANGED pureVars

\* a step of a task that does not take the GAME_STATE lock
NoGameState(op) ==
    /\ steps < MaxServerSteps
    /\ steps' = steps + 1
    /\ out' = <<>>
    /\ last' = op
    /\ UNCHANGED <<game_state, poisoned, OBJECT_ID, actors, departed,
                   left_count, full_states, pureVars>>

count_left(r, id) ==
    [p \in Ids \X Ids |->
        IF p[1] = id /\ p[2] \in Range(r.out[1].to)
        THEN left_count[p] + 1 ELSE left_count[p]]

\* ws_handler 158-193: mint the id, check the ban list
WsHandlerCheck(ip) ==
    /\ CLIENT_ID < MaxClients
    /\ CLIENT_ID' = CLIENT_ID + 1
    /\ conn' = [conn EXCEPT ![CLIENT_ID] =
                  [@ EXCEPT !.ip = ip,
                            !.pc = IF ip = Local THEN "upgraded"
                                   ELSE IF ip \in BANNED_IPS THEN "rejected"
                                   ELSE "ws_insert"]]
    /\ NoGameState(Op("ws_handler", CLIENT_ID))
    /\ UNCHANGED <<CONNECTED_IPS, BANNED_IPS, combineVars>>

\* ws_handler 195-201: connected_ips.insert(ip, client_id).is_some() rejects,
\* after the insert has replaced the entry
WsHandlerInsert(id) ==
    /\ conn[id].pc = "ws_insert"
    /\ CONNECTED_IPS' = [CONNECTED_IPS EXCEPT ![conn[id].ip] = id]
    /\ conn' = [conn EXCEPT ![id].pc =
                  IF CONNECTED_IPS[conn[id].ip] # NoId THEN "rejected"
                  ELSE "upgraded"]
    /\ NoGameState(Op("ws_insert", id))
    /\ UNCHANGED <<CLIENT_ID, BANNED_IPS, combineVars>>

\* handle_client 231-235: new_client, then the recv and send tasks start
HandleClientStart(id) ==
    /\ conn[id].pc = "upgraded"
    /\ ApplyServer(new_client(game_state, id), Op("new_client", id))
    /\ conn' = [conn EXCEPT ![id].pc = "running", ![id].recv = "idle",
                            ![id].send = "running"]
    /\ UNCHANGED <<CLIENT_ID, OBJECT_ID, actors, departed, left_count,
                   CONNECTED_IPS, BANNED_IPS, combineVars>>

\* recv task 262-273: a binary message arrived; the CONNECTED_IPS check
RecvCheck(id) ==
    /\ conn[id].recv = "idle"
    /\ conn' = [conn EXCEPT ![id].recv =
                  IF conn[id].ip # Local /\ CONNECTED_IPS[conn[id].ip] = NoId
                  THEN "done" ELSE "checked"]
    /\ NoGameState(Op("recv_check", id))
    /\ UNCHANGED <<CLIENT_ID, CONNECTED_IPS, BANNED_IPS, combineVars>>

\* what a binary message decodes to; "undecodable" when from_bytes fails
MessageKinds == {"undecodable", "Connect", "Action", "Chat", "UpdateObject"}

\* a recv task without the checks of `connected`
recv_forwards_always(connected, kind) == kind # "undecodable"

\* recv task 275-293: whether the message goes on to update; the others are
\* skipped with `continue`
recv_forwards(connected, kind) ==
    CASE kind = "undecodable" -> FALSE
      [] kind = "Connect" -> ~connected
      [] OTHER -> connected

\* recv task 275-286, 290-293: undecodable message, message before Connect,
\* or second Connect: continue
RecvSkip(id) ==
    /\ conn[id].recv = "checked"
    /\ conn' = [conn EXCEPT ![id].recv = "idle"]
    /\ \E kind \in MessageKinds :
          /\ ~recv_forwards(conn[id].connected, kind)
          /\ NoGameState([op |-> "recv_skip", id |-> id, kind |-> kind])
    /\ UNCHANGED <<CLIENT_ID, CONNECTED_IPS, BANNED_IPS, combineVars>>

\* recv task 289-323: name.truncate(NAME_LIMIT); name.trim()
recv_sanitize(name) == String_truncate(name, NAME_LIMIT)

\* recv task 288-323, 357: the first Connect of the connection
RecvConnect(id) ==
    /\ conn[id].recv = "checked"
    /\ recv_forwards(conn[id].connected, "Connect")
    /\ \E raw \in RawNames :
          /\ ~recv_sanitize(raw).panic
          /\ ApplyServer(update_Connect(game_state, id,
                                        trim(recv_sanitize(raw).s)),
                [op |-> "Connect", id |-> id,
                 existed |-> id \in {c.id : c \in Range(game_state.world.clients)}])
    /\ conn' = [conn EXCEPT ![id].recv = "idle", ![id].connected = TRUE]
    /\ UNCHANGED <<CLIENT_ID, OBJECT_ID, actors, departed, left_count,
                   CONNECTED_IPS, BANNED_IPS, combineVars>>

\* recv task 283-286, 354-357: an Action of a connected client
RecvAction(id) ==
    /\ conn[id].recv = "checked"
    /\ recv_forwards(conn[id].connected, "Action")
    /\ \E a \in ActionInputs :
          ApplyServer(update_Action(game_state, id, a), Op("Action", id))
    /\ actors' = actors \cup {id}
    /\ conn' = [conn EXCEPT ![id].recv = "idle"]
    /\ UNCHANGED <<CLIENT_ID, OBJECT_ID, departed, left_count,
                   CONNECTED_IPS, BANNED_IPS, combineVars>>

\* recv task 324-357: a Chat of a connected client
RecvChat(id) ==
    /\ conn[id].recv = "checked"
    /\ recv_forwards(conn[id].connected, "Chat")
    /\ \E text \in ChatTexts :
          ApplyServer(update_Chat(game_state, id, text), Op("Chat", id))
    /\ conn' = [conn EXCEPT ![id].recv = "idle"]
    /\ UNCHANGED <<CLIENT_ID, OBJECT_ID, actors, departed, left_count,
                   CONNECTED_IPS, BANNED_IPS, combineVars>>

\* recv task 354-357: an UpdateObject of a connected client
RecvUpdateObject(id) ==
    /\ conn[id].recv = "checked"
    /\ recv_forwards(conn[id].connected, "UpdateObject")
    /\ \E obj \in 0..(MaxObjects - 1), data \in UpdateObjectInputs :
          ApplyServer(update_UpdateObject(game_state, id, obj, data),
                [op |-> "UpdateObject", id |-> id, obj |-> obj, data |-> data])
    /\ conn' = [conn EXCEPT ![id].recv = "idle"]
    /\ UNCHANGED <<CLIENT_ID, OBJECT_ID, actors, departed, left_count,
                   CONNECTED_IPS, BANNED_IPS, combineVars>>

\* recv task 262: the socket closed, failed or delivered a non-binary frame
RecvEnd(id) ==
    /\ conn[id].recv = "idle"
    /\ conn' = [conn EXCEPT ![id].recv = "done"]
    /\ NoGameState(Op("recv_end", id))
    /\ UNCHANGED <<CLIENT_ID, CONNECTED_IPS, BANNED_IPS, combineVars>>

\* send task 365: client_rx.recv() yields None once the sender kept in
\* client_mapping has been dropped
SendEnd(id) ==
    /\ conn[id].send = "running"
    /\ id \notin Range(game_state.client_mapping)
    /\ conn' = [conn EXCEPT ![id].send = "done"]
    /\ NoGameState(Op("send_end", id))
    /\ UNCHANGED <<CLIENT_ID, CONNECTED_IPS, BANNED_IPS, combineVars>>

\* handle_client 242, after select! (385-388) saw one of the tasks finish
HandleClientRemove(id) ==
    /\ conn[id].pc = "running"
    /\ conn[id].recv = "done" \/ conn[id].send = "done"
    /\ LET r == remove_client(game_state, id)
       IN  /\ ApplyServer(r, Op("remove_client", id))
           /\ left_count' = count_left(r, id)
    /\ departed' = [departed EXCEPT ![id] = @ + 1]
    /\ conn' = [conn EXCEPT ![id].pc = "removed"]
    /\ UNCHANGED <<CLIENT_ID, OBJECT_ID, actors, CONNECTED_IPS, BANNED_IPS,
                   combineVars>>

\* handle_client 243-245
HandleClientForgetIp(id) ==
    /\ conn[id].pc = "removed"
    /\ CONNECTED_IPS' = IF conn[id].ip = Local THEN CONNECTED_IPS
                        ELSE [CONNECTED_IPS EXCEPT ![conn[id].ip] = NoId]
    /\ conn' = [conn EXCEPT ![id].pc = "closed"]
    /\ NoGameState(Op("forget_ip", id))
    /\ UNCHANGED <<CLIENT_ID, BANNED_IPS, combineVars>>

\* run 114-121: AdminAction::BanIp
BanIp(ip) ==
    /\ ip \notin BANNED_IPS
    /\ ~poisoned
    /\ IF CONNECTED_IPS[ip] # NoId
       THEN LET id == CONNECTED_IPS[ip]
                r == remove_client(game_state, id)
            IN  /\ ApplyServer(r, Op("ban_remove_client", id))
                /\ left_count' = count_left(r, id)
                /\ departed' = [departed EXCEPT ![id] = @ + 1]
                /\ UNCHANGED <<OBJECT_ID, actors>>
       ELSE NoGameState(Op("ban", NoId))
    /\ CONNECTED_IPS' = [CONNECTED_IPS EXCEPT ![ip] = NoId]
    /\ BANNED_IPS' = BANNED_IPS \cup {ip}
    /\ UNCHANGED <<CLIENT_ID, conn, combineVars>>

\* run 122-125: AdminAction::UnbanIp
UnbanIp(ip) ==
    /\ ip \in BANNED_IPS
    /\ BANNED_IPS' = BANNED_IPS \ {ip}
    /\ NoGameState(Op("unban", NoId))
    /\ UNCHANGED <<CLIENT_ID, CONNECTED_IPS, conn, combineVars>>

\* run 97-109: the tick task
TickTask ==
    /\ ApplyServer(tick(game_state),
             [op |-> "tick", id |-> NoId,
              on_collision |->
                  tick_objects(game_state.world.network_objects).on_collision])
    /\ actors' = {}
    /\ UNCHANGED <<CLIENT_ID, OBJECT_ID, departed, left_count, combineVars,
                   serverVars>>

\* set_special_event 67-74, from run 139 and from the admin panel
SetSpecialEventTask(active) ==
    /\ active => OBJECT_ID + BallsPerEvent <= MaxObjects
    /\ ApplyServer(set_special_event(game_state, OBJECT_ID, "BeachEpisode", active),
             [op |-> "set_special_event", id |-> NoId, active |-> active])
    /\ OBJECT_ID' = IF active THEN OBJECT_ID + BallsPerEvent ELSE OBJECT_ID
    /\ UNCHANGED <<CLIENT_ID, actors, departed, left_count, combineVars,
                   serverVars>>

NextServer ==
    \/ \E ip \in Ips \cup {Local} : WsHandlerCheck(ip)
    \/ \E id \in Ids : WsHandlerInsert(id)
    \/ \E id \in Ids : HandleClientStart(id)
    \/ \E id \in Ids : RecvCheck(id)
    \/ \E id \in Ids : RecvSkip(id)
    \/ \E id \in Ids : RecvConnect(id)
    \/ \E id \in Ids : RecvAction(id)
    \/ \E id \in Ids : RecvChat(id)
    \/ \E id \in Ids : RecvUpdateObject(id)
    \/ \E id \in Ids : RecvEnd(id)
    \/ \E id \in Ids : SendEnd(id)
    \/ \E id \in Ids : HandleClientRemove(id)
    \/ \E id \in Ids : HandleClientForgetIp(id)
    \/ \E ip \in Ips : BanIp(ip)
    \/ \E ip \in Ips : UnbanIp(ip)
    \/ TickTask
    \/ \E active \in BOOLEAN : SetSpecialEventTask(active)

SpecServer == Init /\ [][NextServer]_vars

\* C4: when a client leaves (teardown in handle_client, BanIp, or both for
\* the same connection) every remaining client gets ClientLeft(id) exactly
\* once.
C4_ClientLeftOnce ==
    \A id \in Ids : \A r \in Ids :
        /\ left_count[<<id, r>>] <= 1
        /\ (departed[id] > 0 /\ r # id /\ r \in Range(game_state.client_mapping)
              /\ last.op \in {"remove_client", "ban_remove_client"}
              /\ last.id = id)
             => left_count[<<id, r>>] = 1

\* C5: once remove_client(id) has run, no UpdateState broadcast by a later
\* tick holds an entry for id.
C5_NoUpdateStateAfterLeft ==
    last.op = "tick" =>
        \A i \in UpdateStates(out) :
            \A k \in 1..Len(out[i].msg.updates) :
                departed[out[i].msg.updates[k][1]] = 0

\* C20: over a run of the server FullState is delivered at most once per
\* ClientId, only by the handling of that client's own Connect, and to no
\* channel but that client's.
C20_FullStateOncePerClient ==
    /\ \A id \in Ids : \A r \in Ids :
          /\ full_states[<<id, r>>] <= 1
          /\ r # id => full_states[<<id, r>>] = 0
    /\ \A i \in 1..Len(out) :
          out[i].msg.type = "FullState" =>
             /\ last.op = "Connect"
             /\ last.id = out[i].msg.own_id
             /\ Range(out[i].to) \subseteq {last.id}

\* C20 witness: client 0 got its FullState, and a later message of the same
\* connection that update must not see (such as a second Connect) was
\* skipped while a second channel was registered
C20_Witness ==
    /\ full_states[<<0, 0>>] = 1
    /\ last.op = "recv_skip" /\ last.id = 0
    /\ conn[0].connected
    /\ Len(game_state.client_mapping) = 2

\* C22: on every connection, an Action, Chat or UpdateObject received before
\* the connection's Connect was accepted changes neither the world nor the
\* queue and sends nothing; a Connect reaches update only while the
\* connection is not yet connected and connects it for good, so at most one
\* Connect per connection reaches update.
C22_NothingBeforeConnect ==
    [][\A id \in Ids :
          /\ conn[id].connected => conn'[id].connected
          /\ (conn[id].recv = "checked" /\ conn'[id].recv = "idle") =>
                LET kind == IF last'.op = "recv_skip" THEN last'.kind
                            ELSE last'.op
                IN  /\ (~conn[id].connected
                          /\ kind \in {"Action", "Chat", "UpdateObject"}) =>
                            /\ game_state' = game_state
                            /\ out' = <<>>
                            /\ ~conn'[id].connected
                    /\ kind = "Connect" =>
                            IF conn[id].connected
                            THEN game_state' = game_state /\ out' = <<>>
                            ELSE conn'[id].connected]_vars

\* C22 witness: an UpdateObject arrived on a connection that had not
\* connected, while the world held an object, and was skipped
C22_Witness ==
    /\ last.op = "recv_skip"
    /\ last.kind = "UpdateObject"
    /\ ~conn[last.id].connected
    /\ game_state.world.network_objects # {}

(***************************************************************************)
(* Specification SpecTester: the first pass of tick (server.rs 74-112) on  *)
(* a world of three resting balls, apart, touching or on top of each other. *)
(***************************************************************************)
TesterPositions == {<<0, 0>>, <<8, 0>>, <<16, 0>>, <<0, 8>>, <<40, 0>>}

\* one first pass per behaviour
TesterStep ==
    /\ collision.op = "none"
    /\ \E p \in [0..2 -> TesterPositions] :
          LET objs == [i \in 1..3 |-> BeachBall_new(i - 1, p[i - 1])]
              Record(st) == [op |-> "tester", objs |-> objs,
                             collisions |-> st.collisions,
                             on_collision |-> st.on_collision]
          IN  collision' =
                  Record(tick_first_pass(CollectedHitboxes(objs),
                             [objs |-> objs, collisions |-> <<>>,
                              on_collision |-> <<>>],
                             1, Len(objs), 1))
    /\ UNCHANGED <<gsVars, combineVars, serverVars, NETWORK_OBJ_ID, returned,
                   codec, notifyVars, clientVars>>

NextTester == TesterStep

SpecTester == Init /\ [][NextTester]_vars

\* C25: when an object invokes the collision tester, on_collision is invoked
\* on it and a second-pass delivery is queued for every other object whose
\* snapshot hitbox intersects its hitbox; an object that intersects no other
\* gets no on_collision (it is never reported to itself).
C25_TesterReportsEveryIntersection ==
    collision.op = "tester" =>
        \A c \in 1..3 :
            LET caller == collision.objs[c]
                others == {o \in 1..3 :
                              /\ o # c
                              /\ Rect_intersects(BeachBall_hitbox(caller),
                                     BeachBall_hitbox(collision.objs[o]))}
                calls == {i \in 1..Len(collision.on_collision) :
                             collision.on_collision[i].on = caller.id}
            IN  /\ Cardinality(calls) = Cardinality(others)
                /\ \A o \in others :
                      /\ \E i \in calls :
                            collision.on_collision[i].info =
                                BeachBall_collision_info(collision.objs[o])
                      /\ \E i \in 1..Len(collision.collisions) :
                            collision.collisions[i] =
                                <<collision.objs[o].id,
                                  BeachBall_collision_info(caller)>>

(***************************************************************************)
(* Specification SpecApply: Client::apply_action on its own, for every     *)
(* ClientAction the public API can build.                                  *)
(***************************************************************************)
\* clients as the server or a mirror may hold them
ClientInputs ==
    {[Client_new(0, Anon, Position_default) EXCEPT
         !.movement = m, !.look_direction = l] :
       m \in {"None", "Up"}, l \in InputDirections}

\* one call of apply_action per behaviour
ClientApplyStep ==
    /\ applied.op = "none"
    /\ \E self \in ClientInputs, action \in AllActions :
          applied' = [op |-> "apply_action", self |-> self, action |-> action,
                      result |-> Client_apply_action(self, action)]
    /\ UNCHANGED <<gsVars, combineVars, serverVars, NETWORK_OBJ_ID, returned,
                   collision, codec, notifyVars, cgs, sent>>

\* the coalesced action applied at once (server: queue_action's combine, then
\* tick's apply_action) and the two actions applied one by one (client:
\* state.rs 291-292 applies every action it sends)
CombineApplyStep ==
    /\ applied.op = "none"
    /\ \E self \in ClientInputs, a \in AllActions, b \in AllActions :
          applied' = [op |-> "combine", self |-> self, a |-> a, b |-> b,
                      combined |->
                          Client_apply_action(self, ClientAction_combine(a, b)),
                      sequential |->
                          Client_apply_action(Client_apply_action(self, a), b)]
    /\ UNCHANGED <<gsVars, combineVars, serverVars, NETWORK_OBJ_ID, returned,
                   collision, codec, notifyVars, cgs, sent>>

NextApply ==
    \/ ClientApplyStep
    \/ CombineApplyStep

SpecApply == Init /\ [][NextApply]_vars

\* C24: apply_action sets look_direction to d when the action sets movement
\* to a direction d other than None, and leaves look_direction unchanged for
\* every other action.
C24_LookDirectionOnlyOnMove ==
    applied.op = "apply_action" =>
        LET m == applied.action.movement
        IN  IF is_some(m) /\ m.v.kind = "Move" /\ m.v.dir # "None"
            THEN applied.result.look_direction = m.v.dir
            ELSE applied.result.look_direction = applied.self.look_direction

(***************************************************************************)
(* Specification SpecNotify: the calls on the ServerGameState with the     *)
(* notify_client callback of GAME_STATE, while channels fail.              *)
(***************************************************************************)
\* the ways a channel stops taking messages: its receiver was dropped when
\* the send task ended (game_server.rs 374-378), or the bounded channel of
\* server/src/main.rs is full
ChannelFailures == {"closed", "full"}

\* one handler under the GAME_STATE lock; its broadcasts go through the
\* callback
ApplyNotify(r, op) ==
    /\ ~poisoned
    /\ steps < MaxSteps
    /\ steps' = steps + 1
    /\ game_state' = r.gs
    /\ out' = r.out
    /\ last' = op
    /\ LET Sent(d) == /\ delivered' = d.got
                       /\ poisoned' = (r.panic \/ d.panic)
       IN  Sent(notify_all(r.out, 1, channels))
    /\ UNCHANGED <<OBJECT_ID, departed, left_count, full_states, combineVars,
                   serverVars, NETWORK_OBJ_ID, returned, collision, codec,
                   channels, orderVars, reloadVars, refineVars,
                   clientVars>>

NotifyNewClient ==
    /\ CLIENT_ID < MaxClients
    /\ ApplyNotify(new_client(game_state, CLIENT_ID), Op("new_client", CLIENT_ID))
    /\ CLIENT_ID' = CLIENT_ID + 1
    /\ UNCHANGED actors

\* the channel of a registered client stops taking messages
ChannelFail(id) ==
    /\ id \in Range(game_state.client_mapping)
    /\ channels[id] = "open"
    /\ steps < MaxSteps
    /\ steps' = steps + 1
    /\ \E how \in ChannelFailures : channels' = [channels EXCEPT ![id] = how]
    /\ out' = <<>>
    /\ delivered' = <<>>
    /\ last' = Op("channel_fail", id)
    /\ UNCHANGED <<game_state, poisoned, CLIENT_ID, OBJECT_ID, actors, departed,
                   left_count, full_states, combineVars, serverVars,
                   NETWORK_OBJ_ID, returned, collision, codec, orderVars,
                   reloadVars, refineVars, clientVars>>

NotifyConnect(id) ==
    /\ id < CLIENT_ID
    /\ \E name \in ConnectNames :
          ApplyNotify(update_Connect(game_state, id, name), Op("Connect", id))
    /\ UNCHANGED <<CLIENT_ID, actors>>

NotifyAction(id) ==
    /\ id < CLIENT_ID
    /\ \E a \in ActionInputs :
          ApplyNotify(update_Action(game_state, id, a), Op("Action", id))
    /\ actors' = actors \cup {id}
    /\ UNCHANGED CLIENT_ID

NotifyChat(id) ==
    /\ id < CLIENT_ID
    /\ \E text \in ChatTexts :
          ApplyNotify(update_Chat(game_state, id, text), Op("Chat", id))
    /\ UNCHANGED <<CLIENT_ID, actors>>

NotifyTick ==
    /\ ApplyNotify(tick(game_state), Op("tick", NoId))
    /\ actors' = {}
    /\ UNCHANGED CLIENT_ID

NextNotify ==
    \/ NotifyNewClient
    \/ \E id \in Ids : ChannelFail(id)
    \/ \E id \in Ids : NotifyConnect(id)
    \/ \E id \in Ids : NotifyAction(id)
    \/ \E id \in Ids : NotifyChat(id)
    \/ NotifyTick

SpecNotify == Init /\ [][NextNotify]_vars

\* C21: a broadcast reaches every targeted client whose channel takes it,
\* whatever the state of the other targeted channels, and the handler that
\* issued it completes (no panic under the lock).
C21_BroadcastSurvivesFailedChannel ==
    /\ ~poisoned
    /\ Len(delivered) = Len(out)
    /\ \A i \in 1..Len(out) :
          LET IsOpen(id) == channels[id] = "open"
          IN  delivered[i] = SelectSeq(out[i].to, IsOpen)

\* C21 witness: a broadcast of update or tick whose first targeted channel
\* failed and whose later targeted channel received the message
C21_Witness ==
    /\ last.op \in {"Chat", "tick"}
    /\ \E i \in 1..Len(out) :
          /\ Len(out[i].to) >= 2
          /\ channels[out[i].to[1]] # "open"
          /\ channels[out[i].to[2]] = "open"
          /\ delivered[i] = <<out[i].to[2]>>

(***************************************************************************)
(* ClientGameState  (client/state.rs)                                      *)
(* A state is [own_id, world, local]; local is None until the first update *)
(* (prepare_local).  Of ClientLocalState the record keeps time_ms,         *)
(* last_tick, last_message, the chat log, the chat_input of own_local, the *)
(* chat bubbles and the per-client locals of WorldLocalState; the camera   *)
(* and the UI frames only feed the drawing.                                *)
(***************************************************************************)
SERVER_TICK_RATE == 1000 \div 60

\* WorldLocalState::new (world.rs 69-87): the object list is empty, its two
\* entries are commented out
WorldLocalState_objects == <<>>

ClientLocalState_new(own_id) ==
    [time_ms |-> 0, last_tick |-> 0, last_message |-> 0, chat_log |-> <<>>,
     chat_input |-> None, chats |-> <<>>, clients |-> <<>>]

\* the ClientGameState a FullState message decodes to: local is serde(skip)
ClientGameState_of(state) ==
    [own_id |-> state.own_id, world |-> state.world, local |-> None]

ClientGameState_client(self) == self.world.clients[1]

prepare_local(self) ==
    IF is_some(self.local) THEN self
    ELSE [self EXCEPT !.local = Some(ClientLocalState_new(self.own_id))]

\* WorldLocalState::add_chat (world.rs 89-108): a bubble for the own client
\* or for a client that has a local entry
WorldLocalState_add_chat(local, id, message, expiry, own_id) ==
    IF id = own_id \/ \E i \in 1..Len(local.clients) : local.clients[i] = id
    THEN [local EXCEPT !.chats = Append(@, [id |-> id, message |-> message,
                                            expiry |-> expiry])]
    ELSE local

\* the result of one call: the state it leaves, whether it panicked, the
\* ClientMessages it handed to send_msg
ClientRet(state, msgs) == [state |-> state, panic |-> FALSE, msgs |-> msgs]
ClientPanic(state) == [state |-> state, panic |-> TRUE, msgs |-> <<>>]

\* the test of `continue` in the UpdateState loop
UpdateState_skip_never(self, id) == FALSE

UpdateState_skip(self, id) == id = ClientGameState_client(self).id

RECURSIVE handle_UpdateState(_, _, _)
\* the loop over updates: one fresh find per entry
handle_UpdateState(self, updates, k) ==
    IF k > Len(updates) THEN self
    ELSE LET id == updates[k][1]
             found == clients_find(self.world.clients, 1, id)
         IN  IF UpdateState_skip(self, id) \/ found = 0
             THEN handle_UpdateState(self, updates, k + 1)
             ELSE handle_UpdateState(
                      [self EXCEPT !.world.clients[found] =
                           Client_apply_action(@, updates[k][2])],
                      updates, k + 1)

\* Vec::retain
RECURSIVE retain_clients(_, _)
retain_clients(clients, client_id) ==
    IF clients = <<>> THEN <<>>
    ELSE IF Head(clients).id # client_id
         THEN <<Head(clients)>> \o retain_clients(Tail(clients), client_id)
         ELSE retain_clients(Tail(clients), client_id)

RECURSIVE retain_ids(_, _)
retain_ids(ids, client_id) ==
    IF ids = <<>> THEN <<>>
    ELSE IF Head(ids) # client_id
         THEN <<Head(ids)>> \o retain_ids(Tail(ids), client_id)
         ELSE retain_ids(Tail(ids), client_id)

\* the test of the ClientLeft arm (state.rs 324)
ClientLeft_own_never(self, client_id) == FALSE

ClientLeft_own(self, client_id) ==
    client_id = ClientGameState_client(self).id

\* the chat log keeps the last 256 lines
CHAT_LOG_LIMIT == 256

\* ClientGameState::handle_message (state.rs 313-376).  client() unwraps the
\* first mirrored client, local_mut() unwraps local.
ClientGameState_handle_message(self, msg) ==
    CASE msg.type = "NewClient" ->
           LET pushed == [self EXCEPT !.world.clients = Append(@, msg.client)]
           IN  IF ~is_some(self.local) THEN ClientPanic(pushed)
               ELSE ClientRet([pushed EXCEPT !.local.v.clients =
                                   Append(@, msg.client.id)], <<>>)
      [] msg.type = "ClientLeft" ->
           IF self.world.clients = <<>> THEN ClientPanic(self)
           ELSE IF ClientLeft_own(self, msg.id)
           THEN ClientRet(self, <<>>)
           ELSE LET kept == [self EXCEPT !.world.clients =
                                 retain_clients(@, msg.id)]
                IN  IF ~is_some(self.local) THEN ClientPanic(kept)
                    ELSE ClientRet([kept EXCEPT !.local.v.clients =
                                        retain_ids(@, msg.id)], <<>>)
      [] msg.type = "FullState" -> ClientPanic(self)
      [] msg.type = "UpdateState" ->
           IF msg.updates # <<>> /\ self.world.clients = <<>>
           THEN ClientPanic(self)
           ELSE ClientRet(handle_UpdateState(self, msg.updates, 1), <<>>)
      [] msg.type = "Chat" ->
           LET found == clients_find(self.world.clients, 1, msg.id)
               typed == IF found = 0 THEN self
                        ELSE [self EXCEPT !.world.clients[found].typing = FALSE]
               client_name ==
                   IF found # 0 THEN self.world.clients[found].name
                   ELSE IF self.world.clients = <<>> THEN <<>>
                   ELSE IF msg.id = ClientGameState_client(self).id
                        THEN <<"Y", "o", "u">>
                        ELSE <<"U", "n", "k", "n", "o", "w", "n">>
               Logged(local) ==
                   LET log == Append(local.chat_log,
                                     [name |-> client_name, message |-> msg.text])
                   IN  WorldLocalState_add_chat(
                           [local EXCEPT !.chat_log =
                                IF Len(log) > CHAT_LOG_LIMIT THEN Tail(log)
                                ELSE log],
                           msg.id, msg.text, local.time_ms + 5000, self.own_id)
           IN  IF found = 0 /\ self.world.clients = <<>> THEN ClientPanic(self)
               ELSE IF ~is_some(self.local) THEN ClientPanic(typed)
               ELSE ClientRet([typed EXCEPT !.local.v = Logged(@)], <<>>)

(***************************************************************************)
(* ClientGameState::update  (state.rs 124-311)                             *)
(* A key event is [key, state]; the keyboard is the queue of the events    *)
(* since the previous frame.                                               *)
(***************************************************************************)
KeyEvent(key, state) == [key |-> key, state |-> state]

\* the arms of `match input.key` (state.rs 147-163)
button_direction(input) ==
    CASE input.key \in {"ArrowUp", "w"} -> Some("Up")
      [] input.key \in {"ArrowDown", "s"} -> Some("Down")
      [] input.key \in {"ArrowLeft", "a"} -> Some("Left")
      [] input.key \in {"ArrowRight", "d"} -> Some("Right")
      [] input.key \in {"Return", "t"} /\ input.state = "Down" -> Some("None")
      [] OTHER -> None

opens_chat(input) ==
    input.key \in {"Return", "t"} /\ input.state = "Down"

\* the Up arm of `match input.state`
key_up_clears_always(direction, d) == TRUE

key_up_clears(direction, d) == direction = Some(d)

RECURSIVE update_keys(_, _, _)
\* the loop over the keyboard taken when the chat input was closed at the
\* start of the frame (state.rs 146-178); st is [direction, chat_input,
\* client_action]
update_keys(keyboard, k, st) ==
    IF k > Len(keyboard) THEN st
    ELSE LET Pressed(input, s) ==
                 LET bd == button_direction(input)
                 IN  IF ~is_some(bd) THEN s
                     ELSE IF input.state = "Down"
                     THEN [s EXCEPT !.direction = Some(bd.v)]
                     ELSE IF input.state = "Up"
                             /\ key_up_clears(s.direction, bd.v)
                     THEN [s EXCEPT !.direction = Some("None")]
                     ELSE s
             Opened(input, s) ==
                 IF opens_chat(input)
                 THEN [s EXCEPT !.chat_input = Some(<<>>),
                                !.client_action = ClientAction_typing(@, TRUE)]
                 ELSE s
         IN  update_keys(keyboard, k + 1,
                         Pressed(keyboard[k], Opened(keyboard[k], st)))

RECURSIVE update_escape(_, _, _)
\* the loop taken when the chat input was open (state.rs 193-203)
update_escape(keyboard, k, st) ==
    IF k > Len(keyboard) THEN st
    ELSE IF keyboard[k].key = "Escape" /\ keyboard[k].state = "Down"
         THEN update_escape(keyboard, k + 1,
                  [st EXCEPT !.chat_input = None,
                             !.client_action = ClientAction_typing(@, FALSE)])
         ELSE update_escape(keyboard, k + 1, st)

\* the position one frame moves to (state.rs 210-217)
moved(position, direction, tick_amt) ==
    CASE direction = "Up" -> <<position[1], position[2] - 1 * tick_amt>>
      [] direction = "Down" -> <<position[1], position[2] + 1 * tick_amt>>
      [] direction = "Left" -> <<position[1] - 1 * tick_amt, position[2]>>
      [] direction = "Right" -> <<position[1] + 1 * tick_amt, position[2]>>

own_hitbox(pos) ==
    [min |-> <<pos[1] + 2, pos[2] + 12>>, max |-> <<pos[1] + 30, pos[2] + 32>>]

\* WorldState::render (world.rs 140-160): every mirrored client but the own
\* one gets a local entry
RECURSIVE render_locals(_, _, _, _)
render_locals(clients, k, locals, own_id) ==
    IF k > Len(clients) THEN locals
    ELSE IF clients[k].id = own_id
            \/ \E i \in 1..Len(locals) : locals[i] = clients[k].id
         THEN render_locals(clients, k + 1, locals, own_id)
         ELSE render_locals(clients, k + 1, Append(locals, clients[k].id),
                            own_id)

\* last_tick after the frame (state.rs 136-137)
advance_last_tick_to_now(last_tick, tick_amt, time_ms) == time_ms

advance_last_tick(last_tick, tick_amt, time_ms) ==
    last_tick + tick_amt * SERVER_TICK_RATE

\* let forced_update (state.rs 274-275)
forced_update_never(local) == FALSE

forced_update(local) ==
    local.time_ms - local.last_message > SERVER_TICK_RATE * 15

ClientGameState_update(self0, delta_ms, keyboard) ==
    IF self0.world.clients = <<>> THEN ClientPanic(prepare_local(self0))
    ELSE
    LET l0 == prepare_local(self0).local.v
        time_ms == l0.time_ms + delta_ms
        tick_amt == (time_ms - l0.last_tick) \div SERVER_TICK_RATE
        client == ClientGameState_client(self0)
        start == [direction |-> IF client.movement = "None" THEN None
                                ELSE Some(client.movement),
                  chat_input |-> l0.chat_input,
                  client_action |-> ClientAction_new]
        Keys(st) == IF ~is_some(l0.chat_input)
                    THEN update_keys(keyboard, 1, st)
                    ELSE update_escape(keyboard, 1, st)
        Checked(st) ==
            \* [checked_pos, client_action] of state.rs 205-223
            IF st.direction = Some("None")
            THEN [pos |-> None,
                  action |-> ClientAction_movement(st.client_action,
                                                   client.position, "None")]
            ELSE IF is_some(st.direction)
            THEN [pos |-> Some(moved(client.position, st.direction.v, tick_amt)),
                  action |-> st.client_action]
            ELSE [pos |-> None, action |-> st.client_action]
        Collides(pos) ==
            /\ is_some(pos)
            /\ \E i \in 1..Len(WorldLocalState_objects) :
                  Rect_intersects(WorldLocalState_objects[i], own_hitbox(pos.v))
        Acted(st, c) ==
            IF ~is_some(st.direction) THEN c.action
            ELSE IF is_some(c.pos) /\ ~Collides(c.pos)
            THEN ClientAction_movement(c.action, c.pos.v, st.direction.v)
            ELSE ClientAction_look(c.action, st.direction.v)
        Finish(st, client_action) ==
            LET l1 == [l0 EXCEPT !.time_ms = time_ms,
                                 !.last_tick =
                                     advance_last_tick(@, tick_amt, time_ms),
                                 !.chat_input = st.chat_input]
                has_action == ClientAction_any(client_action)
                forced == forced_update(l1) /\ ~has_action
                action == IF forced
                          THEN ClientAction_typing(
                                   ClientAction_movement(client_action,
                                       client.position, client.movement),
                                   is_some(st.chat_input))
                          ELSE client_action
                l2 == IF forced THEN [l1 EXCEPT !.last_message = l1.time_ms]
                      ELSE l1
                l3 == [l2 EXCEPT !.clients = render_locals(self0.world.clients,
                                                 1, @, self0.own_id)]
            IN  IF has_action \/ forced_update(l1)
                THEN ClientRet([self0 EXCEPT
                                   !.local = Some(l3),
                                   !.world.clients[1] =
                                       Client_apply_action(@, action)],
                               <<[type |-> "Action", action |-> action]>>)
                ELSE ClientRet([self0 EXCEPT !.local = Some(l3)], <<>>)
        Run(st) == Finish(st, Acted(st, Checked(st)))
    IN  Run(Keys(start))

(***************************************************************************)
(* The web client (web_client/src/lib.rs): game_state starts as None, a    *)
(* FullState message replaces it (170-175), every other message goes to    *)
(* handle_message (176-180), every frame calls update (240-252).           *)
(***************************************************************************)
MaxMessages == 4
MaxFrames == 4
MaxKeyFrames == 2

Mirrored(id) == Client_new(id, Anon, Position_default)

\* the worlds of the FullState the server sends to client 0
MirrorWorlds ==
    {[WorldState_new EXCEPT !.clients = c] :
        c \in {<<Mirrored(0)>>, <<Mirrored(1), Mirrored(0)>>}}

\* the actions of the entries of an UpdateState
MirrorActions ==
    { ClientAction_movement(ClientAction_new, <<1, 0>>, "Left"),
      ClientAction_typing(ClientAction_new, TRUE),
      ClientAction_look(ClientAction_new, "Up") }

MirrorUpdates ==
    LET entries == Ids \X MirrorActions
    IN  {<<>>} \cup {<<e>> : e \in entries}
               \cup {<<e, f>> : e \in entries, f \in entries}

MirrorMessages ==
    {NewClient(Mirrored(id)) : id \in Ids}
      \cup {ClientLeft(id) : id \in Ids}
      \cup {UpdateState(u) : u \in MirrorUpdates}
      \cup {Chat(id, <<"h">>) : id \in Ids}

ClientReady ==
    /\ is_some(cgs)
    /\ ~sent.panic

OnFullState ==
    /\ ~is_some(cgs)
    /\ \E world \in MirrorWorlds :
          LET Decoded(state) ==
                  /\ ~state.panic
                  /\ cgs' = Some(ClientGameState_of(state))
          IN  Decoded(SerializedClientGameState_serialize(FullState(0, world)))
    /\ sent' = [sent EXCEPT !.op = "FullState", !.msgs = <<>>]
    /\ UNCHANGED <<gsVars, combineVars, serverVars, NETWORK_OBJ_ID, returned,
                   collision, codec, notifyVars, applied>>

\* on_message for a message other than FullState
OnMessage(kind) ==
    /\ ClientReady
    /\ sent.calls < MaxMessages
    /\ \E msg \in MirrorMessages :
          /\ msg.type = kind
          /\ LET Handled(r) ==
                     /\ cgs' = Some(r.state)
                     /\ sent' = [sent EXCEPT !.op = kind, !.msg = msg,
                                             !.msgs = r.msgs,
                                             !.panic = r.panic,
                                             !.calls = @ + 1]
             IN  Handled(ClientGameState_handle_message(cgs.v, msg))
    /\ UNCHANGED <<gsVars, combineVars, serverVars, NETWORK_OBJ_ID, returned,
                   collision, codec, notifyVars, applied>>

\* one frame: update(delta_ms, .., input, send_msg) with the keyboard queue
UpdateCall(delta_ms, keyboard) ==
    /\ ClientReady
    /\ LET client == ClientGameState_client(cgs.v)
           held == /\ keyboard = <<>>
                   /\ client.movement # "None"
                   /\ is_some(cgs.v.local)
                   /\ ~is_some(cgs.v.local.v.chat_input)
           Updated(r) ==
               /\ cgs' = Some(r.state)
               /\ sent' = [sent EXCEPT
                     !.op = "update", !.delta = delta_ms,
                     !.keyboard = keyboard,
                     !.msgs = r.msgs, !.panic = r.panic,
                     !.calls = @ + 1,
                     !.action_time = IF r.msgs # <<>>
                                     THEN Some(r.state.local.v.time_ms) ELSE @,
                     !.held = IF ~held THEN None
                              ELSE IF is_some(@) THEN @
                              ELSE Some([time_ms |-> cgs.v.local.v.time_ms,
                                         position |-> client.position])]
       IN  Updated(ClientGameState_update(cgs.v, delta_ms, keyboard))
    /\ UNCHANGED <<gsVars, combineVars, serverVars, NETWORK_OBJ_ID, returned,
                   collision, codec, notifyVars, applied>>

MirrorFrame ==
    /\ sent.calls < MaxMessages
    /\ UpdateCall(SERVER_TICK_RATE, <<>>)

NextMirror ==
    \/ OnFullState
    \/ OnMessage("NewClient")
    \/ OnMessage("ClientLeft")
    \/ OnMessage("UpdateState")
    \/ OnMessage("Chat")
    \/ MirrorFrame

SpecMirror == Init /\ [][NextMirror]_vars

\* the entries of updates for client.id, applied in order
RECURSIVE ApplyEntries(_, _, _)
ApplyEntries(client, updates, k) ==
    IF k > Len(updates) THEN client
    ELSE IF updates[k][1] = client.id
         THEN ApplyEntries(Client_apply_action(client, updates[k][2]),
                           updates, k + 1)
         ELSE ApplyEntries(client, updates, k + 1)

\* C26: handle_message(UpdateState(updates)) leaves the own Client entry as
\* it was, also when updates holds entries for the own id, and applies every
\* entry for another mirrored id to that mirrored Client, whatever the order
\* of the entries.
C26_UpdateStateSkipsOwn ==
    [][sent'.op = "UpdateState" =>
         LET before == cgs.v.world.clients
             after == cgs'.v.world.clients
             updates == sent'.msg.updates
         IN  /\ ~sent'.panic
             /\ Len(after) = Len(before)
             /\ after[1] = before[1]
             /\ \A i \in 2..Len(before) :
                   after[i] =
                     IF before[i].id # before[1].id
                        /\ clients_find(before, 1, before[i].id) = i
                     THEN ApplyEntries(before[i], updates, 1)
                     ELSE before[i]]_vars

\* C26 witness: an UpdateState with an entry for the own id and a later entry
\* for a mirrored client was handled; the mirrored client changed
C26_Witness ==
    /\ sent.op = "UpdateState"
    /\ Len(sent.msg.updates) = 2
    /\ sent.msg.updates[1][1] = cgs.v.world.clients[1].id
    /\ Len(cgs.v.world.clients) >= 2
    /\ sent.msg.updates[2][1] = cgs.v.world.clients[2].id
    /\ sent.msg.updates[2][1] # cgs.v.world.clients[1].id
    /\ cgs.v.world.clients[2].position = <<1, 0>>
    /\ cgs.v.world.clients[1].position = <<0, 0>>

(***************************************************************************)
(* Frames of the web client (specifications SpecInput and SpecKeys)        *)
(***************************************************************************)
\* frame times: less than a tick, a tick, several ticks and a remainder,
\* more than the period of the forced update
Deltas == {5, SERVER_TICK_RATE, 40, 250}

\* SpecInput: many frames, at most one key event per frame
FrameKeyboards ==
    { <<>>, <<KeyEvent("ArrowUp", "Down")>>, <<KeyEvent("ArrowUp", "Up")>>,
      <<KeyEvent("t", "Down")>>, <<KeyEvent("Escape", "Down")>> }

Frame ==
    /\ sent.calls < MaxFrames
    /\ \E delta_ms \in Deltas, keyboard \in FrameKeyboards :
          UpdateCall(delta_ms, keyboard)

NextInput ==
    \/ OnFullState
    \/ Frame

SpecInput == Init /\ [][NextInput]_vars

\* the frame's key events produce no action: nothing is held, and no event
\* presses a direction or changes the chat input
Idle(state, keyboard) ==
    /\ ClientGameState_client(state).movement = "None"
    /\ \A i \in 1..Len(keyboard) :
          IF is_some(state.local) /\ is_some(state.local.v.chat_input)
          THEN keyboard[i].key # "Escape"
          ELSE keyboard[i].state # "Down" \/ keyboard[i].key = "Escape"

\* C27: an update that produces no action more than 15 * SERVER_TICK_RATE ms
\* after the last forced update sends one Action with the current position,
\* movement and typing state; the client time between two consecutive
\* Action messages is at most 15 * SERVER_TICK_RATE ms plus the frame's delta.
C27_ForcedUpdate ==
    [][sent'.op = "update" =>
         LET now == cgs'.v.local.v.time_ms
             last_message == IF is_some(cgs.v.local)
                             THEN cgs.v.local.v.last_message ELSE 0
             client == ClientGameState_client(cgs.v)
         IN  /\ (Idle(cgs.v, sent'.keyboard)
                   /\ now - last_message > 15 * SERVER_TICK_RATE)
                  => /\ sent'.msgs =
                          <<[type |-> "Action",
                             action |->
                               [movement |-> Some(Move(client.position,
                                                       client.movement)),
                                typing |-> Some(is_some(
                                    cgs'.v.local.v.chat_input))]]>>
                     /\ cgs'.v.local.v.last_message = now
             /\ (sent'.msgs # <<>> /\ is_some(sent.action_time))
                  => now - sent.action_time.v
                       <= 15 * SERVER_TICK_RATE + sent'.delta]_vars

\* C27 witness: a forced update was sent in a frame that followed an earlier
\* Action by more than 15 * SERVER_TICK_RATE ms
C27_Witness ==
    /\ sent.op = "update"
    /\ sent.keyboard = <<>>
    /\ sent.msgs # <<>>
    /\ cgs.v.local.v.last_message = cgs.v.local.v.time_ms
    /\ cgs.v.local.v.time_ms > 250 + 15 * SERVER_TICK_RATE
    /\ ClientGameState_client(cgs.v).movement = "None"
    /\ sent.msgs[1].action.typing = Some(TRUE)

(***************************************************************************)
(* Key events within and across frames (specification SpecKeys)            *)
(***************************************************************************)
\* the key events a frame may hold, at most two of them per frame
InputKeys ==
    { KeyEvent("ArrowUp", "Down"), KeyEvent("ArrowUp", "Up"),
      KeyEvent("a", "Down"), KeyEvent("a", "Up"),
      KeyEvent("t", "Down"), KeyEvent("Return", "Down"),
      KeyEvent("Escape", "Down") }

Keyboards ==
    {<<>>} \cup {<<e>> : e \in InputKeys}
           \cup {<<e, f>> : e \in InputKeys, f \in InputKeys}

KeyFrame ==
    /\ sent.calls < MaxKeyFrames
    /\ \E delta_ms \in Deltas, keyboard \in Keyboards :
          UpdateCall(delta_ms, keyboard)

NextKeys ==
    \/ OnFullState
    \/ KeyFrame

SpecKeys == Init /\ [][NextKeys]_vars

\* the direction a key stands for
KeyDirection(key) ==
    CASE key = "ArrowUp" -> "Up"
      [] key = "a" -> "Left"
      [] OTHER -> "None"

\* the movement intent after the events k.. of the keyboard: a key-down for d
\* sets it to d, a key-up for d clears it when it is d
RECURSIVE Intent(_, _, _)
Intent(intent, keyboard, k) ==
    IF k > Len(keyboard) THEN intent
    ELSE LET d == KeyDirection(keyboard[k].key)
         IN  IF d = "None" THEN Intent(intent, keyboard, k + 1)
             ELSE IF keyboard[k].state = "Down" THEN Intent(d, keyboard, k + 1)
             ELSE IF intent = d THEN Intent("None", keyboard, k + 1)
             ELSE Intent(intent, keyboard, k + 1)

\* no event of the keyboard opens the chat input
ChatStaysClosed(state, keyboard) ==
    /\ ~(is_some(state.local) /\ is_some(state.local.v.chat_input))
    /\ \A i \in 1..Len(keyboard) : keyboard[i].key \notin {"t", "Return"}

\* C28: in an update with the chat input closed, a key-down for direction d
\* sets the movement intent to d, a key-up for d clears it to None only when
\* the intent is d, and a key-up for another direction leaves it unchanged,
\* for every order of the key events within a frame and across frames.
C28_KeyEventsSetIntent ==
    [][(sent'.op = "update" /\ ChatStaysClosed(cgs.v, sent'.keyboard)) =>
         ClientGameState_client(cgs'.v).movement =
             Intent(ClientGameState_client(cgs.v).movement,
                    sent'.keyboard, 1)]_vars

\* C28 witness: with Up held from an earlier frame and the chat input closed,
\* a frame released another direction and the intent stayed Up
C28_Witness ==
    /\ sent.op = "update"
    /\ sent.calls = 2
    /\ ~is_some(cgs.v.local.v.chat_input)
    /\ sent.keyboard = <<KeyEvent("a", "Up")>>
    /\ ClientGameState_client(cgs.v).movement = "Up"

\* C29: while the chat input is open, update does not change the position of
\* the local client, for every sequence of key events and frames, a frame
\* whose key events open the chat and press a direction key included.
C29_NoMoveWhileChatOpen ==
    [][(sent'.op = "update" /\ is_some(cgs'.v.local.v.chat_input)) =>
         ClientGameState_client(cgs'.v).position =
             ClientGameState_client(cgs.v).position]_vars

\* the displacement of n units in direction d
Displaced(position, d, n) ==
    CASE d = "Up" -> <<position[1], position[2] - n>>
      [] d = "Down" -> <<position[1], position[2] + n>>
      [] d = "Left" -> <<position[1] - n, position[2]>>
      [] d = "Right" -> <<position[1] + n, position[2]>>

\* C30: over the update calls during which one direction is held and the chat
\* input is closed, the local client moves by the number of whole tick
\* periods that elapsed, floor(time_end / SERVER_TICK_RATE) -
\* floor(time_start / SERVER_TICK_RATE) units in that direction, however the
\* time is split into frames; after every call last_tick <= time_ms and
\* time_ms - last_tick < SERVER_TICK_RATE.
C30_DisplacementByTicks ==
    (is_some(cgs) /\ is_some(cgs.v.local)) =>
        LET local == cgs.v.local.v
            client == ClientGameState_client(cgs.v)
        IN  /\ local.last_tick <= local.time_ms
            /\ local.time_ms - local.last_tick < SERVER_TICK_RATE
            /\ is_some(sent.held) =>
                  client.position =
                      Displaced(sent.held.v.position, client.movement,
                                (local.time_ms \div SERVER_TICK_RATE)
                                  - (sent.held.v.time_ms \div SERVER_TICK_RATE))

\* C30 witness: Up was held over three frames of different lengths with a
\* frame shorter than a tick among them, and the client moved
C30_Witness ==
    /\ is_some(cgs) /\ is_some(cgs.v.local)
    /\ sent.op = "update"
    /\ sent.calls = 4
    /\ sent.delta = 5
    /\ is_some(sent.held)
    /\ sent.held.v.time_ms = 40
    /\ cgs.v.local.v.time_ms = 40 + 5 + 40 + 5
    /\ ClientGameState_client(cgs.v).position = <<0, 0 - 5>>

(***************************************************************************)
(* Properties of the mirror (specification SpecMirror)                     *)
(***************************************************************************)
\* C35: handle_message completes without failing for every NewClient,
\* ClientLeft, UpdateState and Chat message handled after the state was built
\* from FullState, also before the first update call.
C35_HandleMessageNeverFails ==
    [][sent'.op \in {"NewClient", "ClientLeft", "UpdateState", "Chat"}
          => ~sent'.panic]_vars

\* C40: in every state of a ClientGameState reached by handle_message and
\* update calls, the first entry of the mirror's client list is the local
\* client: NewClient, ClientLeft (one naming own_id too), UpdateState and
\* Chat neither remove nor displace it.
C40_OwnClientFirst ==
    is_some(cgs) =>
        /\ cgs.v.world.clients # <<>>
        /\ cgs.v.world.clients[1].id = cgs.v.own_id

\* C40 witness: a ClientLeft naming own_id was handled after a frame, with
\* another client in the mirror
C40_Witness ==
    /\ is_some(cgs)
    /\ sent.op = "ClientLeft"
    /\ ~sent.panic
    /\ sent.msg.id = cgs.v.own_id
    /\ is_some(cgs.v.local)
    /\ Len(cgs.v.world.clients) >= 2

\* C34: for every Client c and ClientActions a and b, applying a.combine(b)
\* to c gives the position, movement, look_direction and typing that
\* applying a and then b gives.
C34_CombineEqualsSequential ==
    applied.op = "combine" =>
        /\ applied.combined.position = applied.sequential.position
        /\ applied.combined.movement = applied.sequential.movement
        /\ applied.combined.look_direction = applied.sequential.look_direction
        /\ applied.combined.typing = applied.sequential.typing

(***************************************************************************)
(* Further properties of ServerGameState (specification Spec)              *)
(***************************************************************************)
\* C37: after any sequence of set_special_event calls the world holds exactly
\* the balls of one event (500 in the source, BallsPerEvent here) when
\* BeachEpisode is active and none when it is inactive; a call with the value
\* the event already has adds no object and removes none.
C37_BallsMatchEvent ==
    LET balls == {o \in game_state.world.network_objects :
                     o.kind = BEACH_BALL_KIND}
    IN  Cardinality(balls) =
            IF game_state.world.special_events.beach_episode
            THEN BallsPerEvent ELSE 0

(***************************************************************************)
(* Further properties of the server tasks (specification SpecServer)       *)
(***************************************************************************)
\* C38: CONNECTED_IPS maps an IP to the ClientId of the connection currently
\* admitted from that IP; a rejected second attempt from the IP leaves the
\* entry unchanged, so that BanIp(ip) removes that connected client.
C38_ConnectedIpsNamesAdmitted ==
    \A ip \in Ips :
        CONNECTED_IPS[ip] # NoId =>
            /\ conn[CONNECTED_IPS[ip]].ip = ip
            /\ conn[CONNECTED_IPS[ip]].pc \in {"upgraded", "running", "removed"}

\* C36: in every reachable state of the server every Client of world.clients
\* has a notification channel registered in client_mapping: update never runs
\* for an id after remove_client(id).
C36_EveryClientHasChannel ==
    \A i \in 1..Len(game_state.world.clients) :
        game_state.world.clients[i].id \in Range(game_state.client_mapping)

(***************************************************************************)
(* Teardown of a connection (specification SpecTeardown)                   *)
(* The messages, connections and admin actions that arrive are bounded by  *)
(* MaxLiveSteps; the steps that follow the end of a task (select!, the     *)
(* remove_client of handle_client, the end of the send task) are taken by  *)
(* the runtime whenever they are ready, and are not counted.               *)
(***************************************************************************)
MaxLiveSteps == 7

\* tokio::select! over the two JoinHandles (game_server.rs 385-388)
select_ready(recv, send) == recv = "done" \/ send = "done"

\* a handler under the GAME_STATE lock that is not counted as an input
ApplyTeardown(r, op) ==
    /\ ~poisoned
    /\ game_state' = r.gs
    /\ poisoned' = r.panic
    /\ out' = r.out
    /\ last' = op
    /\ full_states' = count_full_states(full_states, r.out)
    /\ UNCHANGED <<steps, pureVars>>

\* handle_client 242
TeardownRemove(id) ==
    /\ conn[id].pc = "running"
    /\ select_ready(conn[id].recv, conn[id].send)
    /\ LET r == remove_client(game_state, id)
       IN  /\ ApplyTeardown(r, Op("remove_client", id))
           /\ left_count' = count_left(r, id)
    /\ departed' = [departed EXCEPT ![id] = @ + 1]
    /\ conn' = [conn EXCEPT ![id].pc = "removed"]
    /\ UNCHANGED <<CLIENT_ID, OBJECT_ID, actors, CONNECTED_IPS, BANNED_IPS,
                   combineVars>>

\* handle_client 243-245
TeardownForgetIp(id) ==
    /\ conn[id].pc = "removed"
    /\ CONNECTED_IPS' = IF conn[id].ip = Local THEN CONNECTED_IPS
                        ELSE [CONNECTED_IPS EXCEPT ![conn[id].ip] = NoId]
    /\ conn' = [conn EXCEPT ![id].pc = "closed"]
    /\ out' = <<>>
    /\ last' = Op("forget_ip", id)
    /\ UNCHANGED <<game_state, poisoned, steps, OBJECT_ID, actors, departed,
                   left_count, full_states, pureVars, CLIENT_ID, BANNED_IPS,
                   combineVars>>

\* send task 365: recv() yields None once the sender is dropped
TeardownSendEnd(id) ==
    /\ conn[id].send = "running"
    /\ id \notin Range(game_state.client_mapping)
    /\ conn' = [conn EXCEPT ![id].send = "done"]
    /\ out' = <<>>
    /\ last' = Op("send_end", id)
    /\ UNCHANGED <<game_state, poisoned, steps, OBJECT_ID, actors, departed,
                   left_count, full_states, pureVars, CLIENT_ID, CONNECTED_IPS,
                   BANNED_IPS, combineVars>>

Arrivals ==
    /\ steps < MaxLiveSteps
    /\ \/ \E ip \in Ips \cup {Local} : WsHandlerCheck(ip)
       \/ \E id \in Ids : WsHandlerInsert(id)
       \/ \E id \in Ids : HandleClientStart(id)
       \/ \E id \in Ids : RecvCheck(id)
       \/ \E id \in Ids : RecvConnect(id)
       \/ \E id \in Ids : RecvEnd(id)
       \/ \E ip \in Ips : BanIp(ip)
       \/ TickTask

NextTeardown ==
    \/ Arrivals
    \/ \E id \in Ids : TeardownRemove(id)
    \/ \E id \in Ids : TeardownForgetIp(id)
    \/ \E id \in Ids : TeardownSendEnd(id)

\* the tokio runtime runs every task that is ready
SpecTeardown ==
    /\ Init
    /\ [][NextTeardown]_vars
    /\ \A id \in Ids : WF_vars(TeardownRemove(id))
    /\ \A id \in Ids : WF_vars(TeardownForgetIp(id))
    /\ \A id \in Ids : WF_vars(TeardownSendEnd(id))

\* remove_client(id) has run (departed counts its calls, each of which
\* broadcasts ClientLeft(id)) and its effects are in place
Removed(id) ==
    /\ departed[id] > 0
    /\ conn[id].pc \in {"removed", "closed"}
    /\ \A i \in 1..Len(game_state.world.clients) :
          game_state.world.clients[i].id # id
    /\ id \notin Range(game_state.client_mapping)
    /\ conn[id].send = "done"

\* C31: if the recv task of a connection ends, then eventually
\* remove_client(id) has run for it: its Client is no longer in the world,
\* its channel is dropped and its send task has ended, and ClientLeft(id) was
\* broadcast to the others.
C31_RecvEndLeadsToRemoval ==
    \A id \in Ids : (conn[id].recv = "done") ~> Removed(id)

(***************************************************************************)
(* Order of delivery (specification SpecOrder)                             *)
(* Every handler runs under the GAME_STATE lock and hands its broadcasts   *)
(* to the unbounded channels before it releases the lock (game_server.rs   *)
(* 33-41); the send task of a connection takes the messages of its channel *)
(* one by one and writes them to the socket (363-381).  A message is named *)
(* by its serial number, the position of its broadcast in the order of the *)
(* critical sections.                                                      *)
(***************************************************************************)
MaxOrderSteps == 5

\* UnboundedSender::send
channel_send_front(q, m) == <<m>> \o q

channel_send(q, m) == Append(q, m)

RECURSIVE enqueue(_, _, _, _)
\* the messages of one handler: broadcast i goes to the channels got[i]
enqueue(q, got, i, base) ==
    IF i > Len(got) THEN q
    ELSE enqueue([id \in Ids |->
                     IF id \in Range(got[i])
                     THEN channel_send(q[id], base + i) ELSE q[id]],
                 got, i + 1, base)

OrderApply(r, op) ==
    /\ steps < MaxOrderSteps
    /\ steps' = steps + 1
    /\ game_state' = r.gs
    /\ poisoned' = r.panic
    /\ out' = r.out
    /\ last' = op
    /\ LET Sent(d) == /\ delivered' = d.got
                       /\ queue' = enqueue(queue, d.got, 1, serial)
       IN  Sent(notify_all(r.out, 1, channels))
    /\ serial' = serial + Len(r.out)
    /\ UNCHANGED <<departed, left_count, full_states, combineVars,
                   serverVars, NETWORK_OBJ_ID, returned, collision, codec,
                   channels, received, reloadVars, refineVars,
                   clientVars>>

\* handle_client 231-235
OrderNewClient ==
    /\ CLIENT_ID < MaxClients
    /\ OrderApply(new_client(game_state, CLIENT_ID), Op("new_client", CLIENT_ID))
    /\ CLIENT_ID' = CLIENT_ID + 1
    /\ UNCHANGED <<OBJECT_ID, actors>>

\* the recv task of a connection, 357
OrderConnect(id) ==
    /\ id \in Range(game_state.client_mapping)
    /\ \E name \in ConnectNames :
          OrderApply(update_Connect(game_state, id, name), Op("Connect", id))
    /\ UNCHANGED <<CLIENT_ID, OBJECT_ID, actors>>

OrderAction(id) ==
    /\ id \in Range(game_state.client_mapping)
    /\ \E a \in ActionInputs :
          OrderApply(update_Action(game_state, id, a), Op("Action", id))
    /\ actors' = actors \cup {id}
    /\ UNCHANGED <<CLIENT_ID, OBJECT_ID>>

OrderChat(id) ==
    /\ id \in Range(game_state.client_mapping)
    /\ \E text \in ChatTexts :
          OrderApply(update_Chat(game_state, id, text), Op("Chat", id))
    /\ UNCHANGED <<CLIENT_ID, OBJECT_ID, actors>>

\* the tick task, 97-109
OrderTick ==
    /\ OrderApply(tick(game_state), Op("tick", NoId))
    /\ actors' = {}
    /\ UNCHANGED <<CLIENT_ID, OBJECT_ID>>

\* the admin actions: BanIp of a connected client (114-121) and
\* set_special_event (67-74)
OrderBan(id) ==
    /\ id \in Range(game_state.client_mapping)
    /\ OrderApply(remove_client(game_state, id), Op("ban_remove_client", id))
    /\ UNCHANGED <<CLIENT_ID, OBJECT_ID, actors>>

OrderSpecialEvent(active) ==
    /\ active => OBJECT_ID + BallsPerEvent <= MaxObjects
    /\ OrderApply(set_special_event(game_state, OBJECT_ID, "BeachEpisode", active),
                  [op |-> "set_special_event", id |-> NoId, active |-> active])
    /\ OBJECT_ID' = IF active THEN OBJECT_ID + BallsPerEvent ELSE OBJECT_ID
    /\ UNCHANGED <<CLIENT_ID, actors>>

\* the send task: client_rx.recv() takes the oldest message, socket_tx.send
\* writes it
SendForward(id) ==
    /\ queue[id] # <<>>
    /\ received' = [received EXCEPT ![id] = Append(@, Head(queue[id]))]
    /\ queue' = [queue EXCEPT ![id] = Tail(@)]
    /\ UNCHANGED <<gsVars, combineVars, serverVars, NETWORK_OBJ_ID, returned,
                   collision, codec, channels, delivered, serial, reloadVars,
                   refineVars,
                   clientVars>>

NextOrder ==
    \/ OrderNewClient
    \/ \E id \in Ids : OrderConnect(id)
    \/ \E id \in Ids : OrderAction(id)
    \/ \E id \in Ids : OrderChat(id)
    \/ OrderTick
    \/ \E id \in Ids : OrderBan(id)
    \/ \E active \in BOOLEAN : OrderSpecialEvent(active)
    \/ \E id \in Ids : SendForward(id)

SpecOrder == Init /\ [][NextOrder]_vars

\* the position of message m in the sequence log, 0 when it is not there
PositionIn(log, m) ==
    IF \E i \in 1..Len(log) : log[i] = m
    THEN CHOOSE i \in 1..Len(log) : log[i] = m
    ELSE 0

\* C32: under every interleaving of the tick task, the connection tasks and
\* the admin actions, two server messages that are both delivered to clients
\* A and B are delivered to A and to B in the same relative order, the order
\* in which the server made the state changes under the game-state lock.
C32_SameOrderEverywhere ==
    \A a \in Ids : \A b \in Ids :
        \A m \in Range(received[a]) \cap Range(received[b]) :
            \A n \in Range(received[a]) \cap Range(received[b]) :
                m < n =>
                    /\ PositionIn(received[a], m) < PositionIn(received[a], n)
                    /\ PositionIn(received[b], m) < PositionIn(received[b], n)

\* C32 witness: two clients were both sent the same two messages, while a
\* later message is still in the channel of one of them
C32_Witness ==
    \E a \in Ids : \E b \in Ids :
        /\ a # b
        /\ Cardinality(Range(received[a]) \cap Range(received[b])) >= 2
        /\ queue[a] # <<>>
        /\ queue[b] = <<>>

(***************************************************************************)
(* read_banned_ips  (server/src/main.rs 51-83), called by the watcher of   *)
(* banned_ips.txt while connections come in (specification SpecReload).    *)
(* reload.connected_ips is the CONNECTED_IPS mutex as this call leaves it: *)
(* free, held by the call, or poisoned by a panic of the call.             *)
(***************************************************************************)
\* std::sync::Mutex::lock on a mutex the calling thread holds never returns:
\* it blocks forever or panics, which of the two is unspecified
RelockOutcomes == {"deadlock", "panicked"}

\* a step of the call that touches neither GAME_STATE nor the connections
ReloadLocal ==
    /\ out' = <<>>
    /\ UNCHANGED <<game_state, poisoned, steps, OBJECT_ID, actors, departed,
                   left_count, full_states, CLIENT_ID, CONNECTED_IPS, conn,
                   combineVars, NETWORK_OBJ_ID, returned, collision, codec,
                   channels, delivered, orderVars, refineVars,
                   clientVars>>

\* 52-70: the file is read and parsed into the set of banned IPs
ReloadRead ==
    /\ reload.pc = "idle"
    /\ steps < MaxLiveSteps
    /\ \E file \in SUBSET Ips :
          reload' = [reload EXCEPT !.pc = "read", !.banned_ips = file]
    /\ last' = Op("read_banned_ips", NoId)
    /\ BANNED_IPS' = BANNED_IPS
    /\ ReloadLocal

\* 72: let connected_ips = CONNECTED_IPS.lock().unwrap(), kept to the end of
\* the function
ReloadLock ==
    /\ reload.pc = "read"
    /\ reload.connected_ips = "free"
    /\ reload' = [reload EXCEPT !.pc = "loop", !.todo = reload.banned_ips,
                                !.connected_ips = "held"]
    /\ last' = Op("reload_lock", NoId)
    /\ BANNED_IPS' = BANNED_IPS
    /\ ReloadLocal

\* 73-74: the next IP of the loop is not connected
ReloadSkip ==
    /\ reload.pc = "loop"
    /\ \E ip \in reload.todo :
          /\ CONNECTED_IPS[ip] = NoId
          /\ reload' = [reload EXCEPT !.todo = @ \ {ip}]
    /\ last' = Op("reload_skip", NoId)
    /\ BANNED_IPS' = BANNED_IPS
    /\ ReloadLocal

\* 74-76: the next IP is connected; its client is removed under GAME_STATE
ReloadKick ==
    /\ reload.pc = "loop"
    /\ \E ip \in reload.todo :
          /\ CONNECTED_IPS[ip] # NoId
          /\ reload' = [reload EXCEPT !.pc = "relock", !.ip = ip,
                                      !.todo = @ \ {ip}]
          /\ LET r == remove_client(game_state, CONNECTED_IPS[ip])
             IN  /\ ~poisoned
                 /\ game_state' = r.gs
                 /\ poisoned' = r.panic
                 /\ out' = r.out
                 /\ last' = Op("reload_remove_client", CONNECTED_IPS[ip])
                 /\ left_count' = count_left(r, CONNECTED_IPS[ip])
                 /\ departed' = [departed EXCEPT ![CONNECTED_IPS[ip]] = @ + 1]
                 /\ full_states' = count_full_states(full_states, r.out)
    /\ UNCHANGED <<steps, OBJECT_ID, actors, CLIENT_ID, CONNECTED_IPS,
                   BANNED_IPS, conn, combineVars, NETWORK_OBJ_ID, returned,
                   collision, codec, channels, delivered, orderVars,
                   refineVars, clientVars>>

\* 77: CONNECTED_IPS.lock().unwrap().remove(ip) while connected_ips is held
ReloadRelock ==
    /\ reload.pc = "relock"
    /\ \E outcome \in RelockOutcomes :
          reload' = [reload EXCEPT
                        !.pc = outcome,
                        !.connected_ips = IF outcome = "panicked"
                                          THEN "poisoned" ELSE "held"]
    /\ last' = Op("reload_relock", NoId)
    /\ BANNED_IPS' = BANNED_IPS
    /\ ReloadLocal

\* 81: the ban list is replaced; the function returns and drops the guard
ReloadStore ==
    /\ reload.pc = "loop"
    /\ reload.todo = {}
    /\ BANNED_IPS' = reload.banned_ips
    /\ reload' = [reload EXCEPT !.pc = "returned", !.connected_ips = "free"]
    /\ last' = Op("reload_store", NoId)
    /\ ReloadLocal

\* the connections of main.rs (ws_handler 177-239, handle_client 241-270);
\* ws_handler's insert waits for the CONNECTED_IPS mutex
Connections ==
    /\ steps < MaxLiveSteps
    /\ UNCHANGED reload
    /\ \/ \E ip \in Ips \cup {Local} : WsHandlerCheck(ip)
       \/ \E id \in Ids : reload.connected_ips = "free" /\ WsHandlerInsert(id)
       \/ \E id \in Ids : HandleClientStart(id)

NextReload ==
    \/ Connections
    \/ ReloadRead
    \/ ReloadLock
    \/ ReloadSkip
    \/ ReloadKick
    \/ ReloadRelock
    \/ ReloadStore

\* the watcher thread runs the call to its end when it can
SpecReload ==
    /\ Init
    /\ [][NextReload]_vars
    /\ WF_vars(ReloadLock) /\ WF_vars(ReloadSkip) /\ WF_vars(ReloadKick)
    /\ WF_vars(ReloadRelock) /\ WF_vars(ReloadStore)

\* C39: read_banned_ips always terminates and releases its locks: also when
\* an IP of the reloaded list is connected, the call returns, with the client
\* removed from the game state and from CONNECTED_IPS.
C39_ReloadReturns ==
    (reload.pc = "read") ~>
        /\ reload.pc = "returned"
        /\ reload.connected_ips = "free"
        /\ \A ip \in reload.banned_ips : CONNECTED_IPS[ip] = NoId

(***************************************************************************)
(* The server and the mirrors of its web clients (specification SpecRefine)*)
(* A connection registers its channel (new_client); its web client shows   *)
(* the menu until a FullState arrives (web_client/src/lib.rs 170-180,      *)
(* 235-253, 286-295), then every frame calls update, whose ClientMessages  *)
(* go up the socket to update(id, ..) on the server.                       *)
(***************************************************************************)
MaxRefineSteps == 7

\* the keyboard queues of a frame
RefineKeyboards == { <<>>, <<KeyEvent("t", "Down")>>, <<KeyEvent("a", "Down")>> }

RECURSIVE deliver(_, _, _)
\* the broadcasts o[i..] of one handler appended to the channels they go to
deliver(box, o, i) ==
    IF i > Len(o) THEN box
    ELSE deliver([id \in Ids |->
                     IF id \in Range(o[i].to) THEN Append(box[id], o[i].msg)
                     ELSE box[id]],
                 o, i + 1)

\* one handler under the GAME_STATE lock; its broadcasts enter the channels
RefineApply(r, op) ==
    /\ ~poisoned
    /\ game_state' = r.gs
    /\ poisoned' = r.panic
    /\ out' = r.out
    /\ last' = op
    /\ inbox' = [id \in Ids |->
                    IF id \in Range(r.gs.client_mapping)
                    THEN deliver(inbox, r.out, 1)[id] ELSE <<>>]
    /\ UNCHANGED <<OBJECT_ID, departed, left_count, full_states, combineVars,
                   serverVars, NETWORK_OBJ_ID, returned, collision, codec,
                   channels, delivered, orderVars, reloadVars, clientVars>>

RefineCounted ==
    /\ steps < MaxRefineSteps
    /\ steps' = steps + 1

RefineNewClient ==
    /\ CLIENT_ID < MaxClients
    /\ RefineCounted
    /\ RefineApply(new_client(game_state, CLIENT_ID), Op("new_client", CLIENT_ID))
    /\ CLIENT_ID' = CLIENT_ID + 1
    /\ UNCHANGED <<actors, mirrors, upstream>>

\* the menu of the web client sends Connect (lib.rs 286-295)
RefineConnect(id) ==
    /\ id \in Range(game_state.client_mapping)
    /\ ~is_some(mirrors[id].gs)
    /\ RefineCounted
    /\ RefineApply(update_Connect(game_state, id, <<>>), Op("Connect", id))
    /\ UNCHANGED <<CLIENT_ID, actors, mirrors, upstream>>

\* a connected client submits its chat input
RefineChat(id) ==
    /\ id \in Range(game_state.client_mapping)
    /\ id \in ClientIds(game_state.world.clients)
    /\ RefineCounted
    /\ RefineApply(update_Chat(game_state, id, ShortText), Op("Chat", id))
    /\ UNCHANGED <<CLIENT_ID, actors, mirrors, upstream>>

\* the recv task takes the oldest ClientMessage of the socket
RefineRecv(id) ==
    /\ id \in Range(game_state.client_mapping)
    /\ upstream[id] # <<>>
    /\ RefineApply(update_Action(game_state, id, Head(upstream[id]).action),
                   Op("Action", id))
    /\ upstream' = [upstream EXCEPT ![id] = Tail(@)]
    /\ actors' = actors \cup {id}
    /\ UNCHANGED <<CLIENT_ID, steps, mirrors>>

RefineTick ==
    /\ RefineCounted
    /\ RefineApply(tick(game_state), Op("tick", NoId))
    /\ actors' = {}
    /\ UNCHANGED <<CLIENT_ID, mirrors, upstream>>

\* the connection ends: handle_client removes the client, the sockets close
RefineRemove(id) ==
    /\ id \in Range(game_state.client_mapping)
    /\ RefineCounted
    /\ RefineApply(remove_client(game_state, id), Op("remove_client", id))
    /\ upstream' = [upstream EXCEPT ![id] = <<>>]
    /\ UNCHANGED <<CLIENT_ID, actors, mirrors>>

\* a step of the web client of id
RefineClient(id, state, op) ==
    /\ mirrors' = [mirrors EXCEPT ![id] = state]
    /\ last' = Op(op, id)
    /\ out' = <<>>
    /\ UNCHANGED <<game_state, poisoned, CLIENT_ID, OBJECT_ID, actors,
                   departed, left_count, full_states, combineVars, serverVars,
                   NETWORK_OBJ_ID, returned, collision, codec, channels,
                   delivered, orderVars, reloadVars, clientVars>>

\* on_message (lib.rs 170-184): a FullState replaces game_state, any other
\* message goes to handle_message when there is a game_state
on_message(mirror, msg) ==
    IF mirror.panic THEN mirror
    ELSE IF msg.type = "FullState"
    THEN LET Decoded(state) ==
                 IF state.panic THEN [mirror EXCEPT !.panic = TRUE]
                 ELSE [mirror EXCEPT !.gs = Some(ClientGameState_of(state))]
         IN  Decoded(SerializedClientGameState_serialize(msg))
    ELSE IF ~is_some(mirror.gs) THEN mirror
    ELSE LET Handled(r) == [gs |-> Some(r.state), panic |-> r.panic]
         IN  Handled(ClientGameState_handle_message(mirror.gs.v, msg))

RefineOnMessage(id) ==
    /\ inbox[id] # <<>>
    /\ RefineClient(id, on_message(mirrors[id], Head(inbox[id])),
                    Head(inbox[id]).type)
    /\ inbox' = [inbox EXCEPT ![id] = Tail(@)]
    /\ UNCHANGED <<steps, upstream>>

\* one frame (lib.rs 235-253) of a client that has a game_state
RefineFrame(id) ==
    /\ id \in Range(game_state.client_mapping)
    /\ is_some(mirrors[id].gs)
    /\ ~mirrors[id].panic
    /\ RefineCounted
    /\ \E keyboard \in RefineKeyboards :
          LET Updated(r) ==
                  /\ RefineClient(id, [gs |-> Some(r.state), panic |-> r.panic],
                                  "update")
                  /\ upstream' = [upstream EXCEPT ![id] = @ \o r.msgs]
          IN  Updated(ClientGameState_update(mirrors[id].gs.v,
                                             SERVER_TICK_RATE, keyboard))
    /\ UNCHANGED inbox

NextRefine ==
    \/ RefineNewClient
    \/ \E id \in Ids : RefineConnect(id)
    \/ \E id \in Ids : RefineChat(id)
    \/ \E id \in Ids : RefineRecv(id)
    \/ RefineTick
    \/ \E id \in Ids : RefineRemove(id)
    \/ \E id \in Ids : RefineOnMessage(id)
    \/ \E id \in Ids : RefineFrame(id)

SpecRefine == Init /\ [][NextRefine]_vars

\* every message is handled and no action is pending
Quiescent ==
    /\ \A id \in Ids : inbox[id] = <<>> /\ upstream[id] = <<>>
    /\ game_state.queued_moves = <<>>

\* the connected clients whose web client holds a game_state
Mirroring ==
    {x \in Ids : /\ x \in Range(game_state.client_mapping)
                 /\ x \in ClientIds(game_state.world.clients)
                 /\ is_some(mirrors[x].gs)
                 /\ ~mirrors[x].panic}

SameClient(c, d) ==
    /\ c.position = d.position
    /\ c.movement = d.movement
    /\ c.look_direction = d.look_direction
    /\ c.typing = d.typing

\* C33: once every message of the server is handled and no action is
\* pending, the mirror of every connected client X that received its
\* FullState holds exactly the server's client ids, and every other client Y
\* has in it the position, movement, look_direction and typing of the
\* server's Client Y.
C33_MirrorEqualsServer ==
    Quiescent =>
        \A x \in Mirroring :
            LET mine == mirrors[x].gs.v.world.clients
                theirs == game_state.world.clients
            IN  /\ ClientIds(mine) = ClientIds(theirs)
                /\ \A i \in 1..Len(mine) : \A j \in 1..Len(theirs) :
                      (mine[i].id = theirs[j].id /\ mine[i].id # x)
                          => SameClient(mine[i], theirs[j])

====
